---- MODULE Spec2Model ----
(***************************************************************************)
(* A model of tunnelman: the public-hostname (ingress rule) editor of      *)
(* models/cloudflare.go working on the remote tunnel configuration, and    *)
(* the process supervisor (TunnelManager) of the models package.           *)
(***************************************************************************)
EXTENDS Integers, Sequences, FiniteSets, TLC

(***************************************************************************)
(* Bounds of the model.                                                    *)
(***************************************************************************)
\* number of hostname-handler calls in one behaviour
MaxCalls == 2

(***************************************************************************)
(* Input alphabets.                                                        *)
(***************************************************************************)
HostA == "a.example.com"
HostB == "b.example.com"
Hostnames == {"", HostA, HostB}
Paths == {"", "*", "/api"}
SvcOne == "http://localhost:3000"
Services == {"", SvcOne}
\* the service AddPublicHostname/UpdatePublicHostname fall back to
DefaultService == "http://localhost:8080"
TunnelID == "tid"
TunnelTarget == "tid.cfargotunnel.com"

(***************************************************************************)
(* Rule ids are strings; a string is modelled as a sequence of one         *)
(* character strings so that strconv.Atoi / strconv.Itoa are computed.     *)
(***************************************************************************)
Digits == <<"0", "1", "2", "3", "4", "5", "6", "7", "8", "9">>
DigitSet == {Digits[i] : i \in 1..10}
DigitVal(ch) == (CHOOSE i \in 1..10 : Digits[i] = ch) - 1

\* the digits of an id after an optional sign
AtoiBody(str) == IF Len(str) > 0 /\ str[1] \in {"+", "-"} THEN Tail(str) ELSE str

\* a digit sequence without its leading zeros
RECURSIVE StripZeros(_)
StripZeros(ds) ==
    IF Len(ds) > 1 /\ ds[1] = "0" THEN StripZeros(Tail(ds)) ELSE ds

\* order of two magnitudes written without leading zeros
MagLess(a, b) ==
    \/ Len(a) < Len(b)
    \/ /\ Len(a) = Len(b)
       /\ \E i \in 1..Len(a) :
            /\ DigitVal(a[i]) < DigitVal(b[i])
            /\ \A j \in 1..(i - 1) : a[j] = b[j]

\* a magnitude plus one
RECURSIVE MagInc(_)
MagInc(ds) ==
    IF Len(ds) = 0 THEN <<"1">>
    ELSE IF ds[Len(ds)] = "9"
    THEN Append(MagInc(SubSeq(ds, 1, Len(ds) - 1)), "0")
    ELSE Append(SubSeq(ds, 1, Len(ds) - 1), Digits[DigitVal(ds[Len(ds)]) + 2])

\* the largest int, 1<<63 - 1, and the magnitude of the smallest
MaxInt64 ==
    <<"9", "2", "2", "3", "3", "7", "2", "0", "3", "6", "8", "5", "4", "7", "7",
      "5", "8", "0", "7">>
MinInt64Mag == MagInc(MaxInt64)

\* an int value: sign and magnitude
Int64(neg, mag) == [neg |-> neg, mag |-> mag]
Zero == Int64(FALSE, <<"0">>)

\* a < b on int values
NumLess(a, b) ==
    IF a.neg /\ ~b.neg THEN TRUE
    ELSE IF ~a.neg /\ b.neg THEN FALSE
    ELSE IF a.neg THEN MagLess(b.mag, a.mag)
    ELSE MagLess(a.mag, b.mag)

\* strconv.Atoi returns err == nil: digits after an optional sign, and a
\* value that fits an int
AtoiOk(str) ==
    /\ Len(AtoiBody(str)) > 0
    /\ \A i \in 1..Len(AtoiBody(str)) : AtoiBody(str)[i] \in DigitSet
    /\ IF str[1] = "-"
       THEN ~MagLess(MinInt64Mag, StripZeros(AtoiBody(str)))
       ELSE ~MagLess(MaxInt64, StripZeros(AtoiBody(str)))

\* the value strconv.Atoi returns when it returns no error
AtoiVal(str) ==
    LET mag == StripZeros(AtoiBody(str))
    IN  Int64(str[1] = "-" /\ mag # <<"0">>, mag)

\* n + 1 on an int n >= 0: the addition wraps around at the largest int
Succ(n) ==
    IF n.mag = MaxInt64 THEN Int64(TRUE, MinInt64Mag)
    ELSE Int64(FALSE, MagInc(n.mag))

\* strconv.Itoa
Itoa(n) == (IF n.neg THEN <<"-">> ELSE <<>>) \o n.mag

(***************************************************************************)
(* Ingress rules and the remote configuration.                             *)
(***************************************************************************)
\* TunnelConfigIngress
Rule(id, hostname, path, service, origin) ==
    [id |-> id, hostname |-> hostname, path |-> path, service |-> service,
     originRequest |-> origin]

CatchAll == Rule(<<>>, "", "", "http_status:404", "nil")

\* TunnelConfigData: the ordered rule list and the warp-routing flag
Config(ingress, warp) == [ingress |-> ingress, warp |-> warp]

\* the remote configurations the model starts from: each has exactly one
\* rule without hostname, in last position; ids are numeric, empty, not a
\* number, or the largest int
InitConfigs ==
    { Config(<<CatchAll>>, FALSE),
      Config(<<Rule(<<"1">>, HostA, "*", SvcOne, "nil"), CatchAll>>, TRUE),
      Config(<<Rule(<<"x">>, HostB, "/api", SvcOne, "set"), CatchAll>>, FALSE),
      Config(<<Rule(<<"1">>, HostA, "/api", SvcOne, "nil"),
               Rule(<<"2">>, HostB, "", DefaultService, "nil"), CatchAll>>, FALSE),
      Config(<<Rule(<<"0", "7">>, HostA, "", SvcOne, "nil"),
               Rule(<<>>, HostA, "/api", SvcOne, "set"), CatchAll>>, TRUE),
      Config(<<Rule(<<"2">>, HostB, "", SvcOne, "nil"),
               Rule(<<"1">>, HostA, "", DefaultService, "nil"), CatchAll>>, FALSE),
      Config(<<Rule(MaxInt64, HostA, "/api", SvcOne, "nil"), CatchAll>>, FALSE) }

\* json.Marshal of one rule followed by the decode of a later fetch:
\* originRequest carries omitempty, so an empty map is not sent
WireRule(r) ==
    [r EXCEPT !.originRequest = IF @ = "empty" THEN "nil" ELSE @]

\* a PUT of the rule list alone: what the remote would store if the
\* handlers sent the ingress without the rest of the fetched config
WireConfigNoWarp(cfg) ==
    Config([i \in 1..Len(cfg.ingress) |-> WireRule(cfg.ingress[i])], FALSE)

\* the body of the PUT of UpdateTunnelConfiguration as the remote stores it
WireConfig(cfg) ==
    Config([i \in 1..Len(cfg.ingress) |-> WireRule(cfg.ingress[i])], cfg.warp)

\* a path taken as it is written: what the handlers would compare if they
\* did not map the empty path to "*"
NormPathRaw(path) == path

\* the path as a caller sees it: empty means "*"
NormPath(path) == IF path = "" THEN "*" ELSE path

\* s with its i-th element removed: append(s[:i], s[i+1:]...)
RemoveAt(s, i) == SubSeq(s, 1, i - 1) \o SubSeq(s, i + 1, Len(s))

\* s with x spliced in before position i
InsertAt(s, i, x) == SubSeq(s, 1, i - 1) \o <<x>> \o SubSeq(s, i, Len(s))

\* indices of the rules without hostname
CatchAllIdx(ingress) == {i \in 1..Len(ingress) : ingress[i].hostname = ""}

Min(S) == CHOOSE x \in S : \A y \in S : x <= y

\* the maxID loop of AddPublicHostname: ids that are empty or that Atoi
\* rejects are skipped
MaxNumericID(ingress) ==
    LET vals == {AtoiVal(ingress[i].id) :
                    i \in {j \in 1..Len(ingress) :
                             ingress[j].id # <<>> /\ AtoiOk(ingress[j].id)}}
                  \cup {Zero}
    IN  CHOOSE v \in vals : \A w \in vals : ~NumLess(v, w)

(***************************************************************************)
(* The three edits, as the handlers compute them on the fetched config.    *)
(* Each yields [err, cfg]: err is "ok" or the reason of the early return.  *)
(***************************************************************************)
EditResult(err, cfg) == [err |-> err, cfg |-> cfg]

\* AddPublicHostname: the defaults of path and service
AddPath(path) == IF path = "" THEN "*" ELSE path
AddService(service) == IF service = "" THEN DefaultService ELSE service

\* AddPublicHostname: the "already exists" loop; it compares the stored
\* path with the defaulted argument
AddConflict(ingress, hostname, path) ==
    \E i \in 1..Len(ingress) :
        ingress[i].hostname = hostname /\ ingress[i].path = AddPath(path)

\* AddPublicHostname: the rule it builds
NewIngress(ingress, hostname, path, service) ==
    Rule(Itoa(Succ(MaxNumericID(ingress))), hostname,
         IF AddPath(path) # "*" THEN AddPath(path) ELSE "",
         AddService(service), "empty")

\* a splice that always appends: what AddPublicHostname would push if it
\* did not look for the rule without hostname
AddSpliceAppend(ingress, new) == Append(ingress, new)

\* AddPublicHostname: splice before the first rule without hostname, or
\* append when there is none
AddSplice(ingress, new) ==
    IF CatchAllIdx(ingress) # {}
    THEN InsertAt(ingress, Min(CatchAllIdx(ingress)), new)
    ELSE Append(ingress, new)

AddEdit(cfg, hostname, path, service) ==
    IF AddConflict(cfg.ingress, hostname, path)
    THEN EditResult("conflict", cfg)
    ELSE EditResult("ok",
            [cfg EXCEPT !.ingress =
                AddSplice(@, NewIngress(@, hostname, path, service))])

\* UpdatePublicHostname: indices of the rules with the original hostname
UpdateMatches(ingress, originalHostname) ==
    {i \in 1..Len(ingress) : ingress[i].hostname = originalHostname}

\* the fields UpdatePublicHostname would write if it left the path alone
UpdateRuleKeepPath(r, newHostname, path, service) ==
    [r EXCEPT !.hostname = newHostname,
              !.service = IF service = "" THEN DefaultService ELSE service]

\* UpdatePublicHostname: the fields written into the matched rule
UpdateRule(r, newHostname, path, service) ==
    [r EXCEPT !.hostname = newHostname,
              !.service = IF service = "" THEN DefaultService ELSE service,
              !.path = IF path = "" \/ path = "*" THEN "" ELSE path]

UpdateEdit(cfg, originalHostname, newHostname, path, service) ==
    IF UpdateMatches(cfg.ingress, originalHostname) = {}
    THEN EditResult("notfound", cfg)
    ELSE LET i == Min(UpdateMatches(cfg.ingress, originalHostname))
         IN  EditResult("ok",
                [cfg EXCEPT !.ingress[i] =
                    UpdateRule(@, newHostname, path, service)])

\* a match on the hostname alone: what RemovePublicHostname would remove if
\* it did not compare paths
RemoveMatchesByHostname(ingress, hostname, path) ==
    {i \in 1..Len(ingress) : ingress[i].hostname = hostname}

\* RemovePublicHostname: indices of the rules the loop would match
RemoveMatches(ingress, hostname, path) ==
    {i \in 1..Len(ingress) :
        /\ ingress[i].hostname = hostname
        /\ NormPath(ingress[i].path) = NormPath(path)}

\* the edit RemovePublicHostname would make if a missing rule were not an
\* error
RemoveEditSilent(cfg, hostname, path) ==
    IF RemoveMatches(cfg.ingress, hostname, path) = {}
    THEN EditResult("ok", cfg)
    ELSE EditResult("ok",
            [cfg EXCEPT !.ingress =
                RemoveAt(@, Min(RemoveMatches(@, hostname, path)))])

RemoveEdit(cfg, hostname, path) ==
    IF RemoveMatches(cfg.ingress, hostname, path) = {}
    THEN EditResult("notfound", cfg)
    ELSE EditResult("ok",
            [cfg EXCEPT !.ingress =
                RemoveAt(@, Min(RemoveMatches(@, hostname, path)))])

\* GetPublicHostnames: the rules with a hostname, in order
RECURSIVE PublicHostnames(_)
PublicHostnames(ingress) ==
    IF Len(ingress) = 0 THEN <<>>
    ELSE IF Head(ingress).hostname = "" THEN PublicHostnames(Tail(ingress))
    ELSE <<[id |-> Head(ingress).id, hostname |-> Head(ingress).hostname,
            path |-> Head(ingress).path, service |-> Head(ingress).service]>>
         \o PublicHostnames(Tail(ingress))

(***************************************************************************)
(* DNS records of the selected zone.                                       *)
(***************************************************************************)
DNSRecord(name, type, content) == [name |-> name, type |-> type, content |-> content]

\* where a DNS flow can fail: a remote call that returns an error, or no
\* selected domain
DNSFaults == {"none", "info", "tunnelID", "noDomain", "zone", "list", "delete", "create"}

\* ListDNSRecords with a Name filter (an empty name filters nothing)
ListByName(d, name) == {r \in d : name = "" \/ r.name = name}

\* createDNSRecordAPI without the deletion of the existing records: what a
\* create that only added its record would leave
createDNSRecordAPIKeepsOld(d, hostname, overwrite, fault) ==
    LET existing == {r \in ListByName(d, hostname) : r.type = "CNAME"}
        new == DNSRecord(hostname, "CNAME", TunnelTarget)
    IN  IF fault \in {"tunnelID", "noDomain", "zone", "list"}
        THEN [err |-> fault, dns |-> d]
        ELSE IF existing # {} /\ ~overwrite
        THEN [err |-> "exists", dns |-> d]
        ELSE IF fault = "create" \/ hostname = ""
        THEN [err |-> "create", dns |-> d]
        ELSE [err |-> "ok", dns |-> d \cup {new}]

\* createDNSRecordAPI: [err, dns] for the records d of the zone
createDNSRecordAPI(d, hostname, overwrite, fault) ==
    LET existing == {r \in ListByName(d, hostname) : r.type = "CNAME"}
        new == DNSRecord(hostname, "CNAME", TunnelTarget)
    IN  IF fault \in {"tunnelID", "noDomain", "zone", "list"}
        THEN [err |-> fault, dns |-> d]
        ELSE IF existing # {} /\ ~overwrite
        THEN [err |-> "exists", dns |-> d]
        ELSE IF existing # {} /\ fault = "delete"
        THEN [err |-> "delete", dns |-> d]
        \* the zone rejects a record without a name
        ELSE IF fault = "create" \/ hostname = ""
        THEN [err |-> "create", dns |-> d \ existing]
        ELSE [err |-> "ok", dns |-> (d \ existing) \cup {new}]

\* deleteDNSRecordAPI: [err, dns]
deleteDNSRecordAPI(d, hostname, fault) ==
    IF fault \in {"noDomain", "zone", "list"}
    THEN [err |-> fault, dns |-> d]
    ELSE IF ListByName(d, hostname) = {}
    THEN [err |-> "notfound", dns |-> d]
    ELSE IF fault = "delete"
    THEN [err |-> "delete", dns |-> d]
    ELSE [err |-> "ok", dns |-> d \ ListByName(d, hostname)]

(***************************************************************************)
(* The handlers.  env says which remote calls succeed: env.fetch for       *)
(* GetTunnelConfiguration, env.push for UpdateTunnelConfiguration and      *)
(* env.dns for the DNS flow.  A handler yields what it returns (err), the  *)
(* remote config and DNS records it leaves, and the calls it issued.       *)
(***************************************************************************)
Env(fetch, push, fault) == [fetch |-> fetch, push |-> push, dns |-> fault]

\* a call after a failed one is never issued, so its outcome is left out
Envs ==
    {Env(FALSE, FALSE, "none"), Env(TRUE, FALSE, "none")}
        \cup {Env(TRUE, TRUE, fault) : fault \in DNSFaults}

Outcome(err, cfg, d, pushed, dnsOps) ==
    [err |-> err, remote |-> cfg, dns |-> d, fetches |-> 1,
     pushed |-> pushed, dnsOps |-> dnsOps, dnsErr |-> "none"]

\* the DNS step of AddPublicHostname, after the push: GetTunnelInfo, then
\* CreateTunnelDNSRecord without overwrite; its error is only logged
AddDNSStep(d, hostname, fault) ==
    IF fault = "info" THEN [err |-> "info", dns |-> d]
    ELSE createDNSRecordAPI(d, hostname, FALSE, fault)

\* what AddPublicHostname would return if it returned the error of its DNS
\* step
AddReturnDNSError(dnsErr) == IF dnsErr = "ok" THEN "ok" ELSE "dns"

\* what AddPublicHostname returns after the push, given the error of the
\* DNS step: the error is printed as a warning and nil is returned
AddReturn(dnsErr) == "ok"

\* AddPublicHostname with the DNS step ahead of the push: what it would
\* leave if it created the record before UpdateTunnelConfiguration
AddPublicHostnameRunDNSFirst(cfg, d, hostname, path, service, env) ==
    LET edit == AddEdit(cfg, hostname, path, service)
        step == AddDNSStep(d, hostname, env.dns)
    IN  IF ~env.fetch THEN Outcome("fetch", cfg, d, <<>>, <<>>)
        ELSE IF edit.err # "ok" THEN Outcome(edit.err, cfg, d, <<>>, <<>>)
        ELSE IF ~env.push
        THEN [Outcome("push", cfg, step.dns, <<edit.cfg>>, <<"create">>)
                EXCEPT !.dnsErr = step.err]
        ELSE [Outcome(AddReturn(step.err), WireConfig(edit.cfg), step.dns,
                      <<edit.cfg>>,
                      IF env.dns = "info" THEN <<>> ELSE <<"create">>)
                EXCEPT !.dnsErr = step.err]

AddPublicHostnameRun(cfg, d, hostname, path, service, env) ==
    LET edit == AddEdit(cfg, hostname, path, service)
    IN  IF ~env.fetch THEN Outcome("fetch", cfg, d, <<>>, <<>>)
        ELSE IF edit.err # "ok" THEN Outcome(edit.err, cfg, d, <<>>, <<>>)
        ELSE IF ~env.push THEN Outcome("push", cfg, d, <<edit.cfg>>, <<>>)
        ELSE LET step == AddDNSStep(d, hostname, env.dns)
             IN  [Outcome(AddReturn(step.err), WireConfig(edit.cfg), step.dns,
                          <<edit.cfg>>,
                          IF env.dns = "info" THEN <<>> ELSE <<"create">>)
                    EXCEPT !.dnsErr = step.err]

\* UpdatePublicHostname with a second Fetch after a failed one: what it
\* would do if it retried instead of returning the error
UpdatePublicHostnameRunRetry(cfg, d, originalHostname, newHostname, path, service, env) ==
    LET edit == UpdateEdit(cfg, originalHostname, newHostname, path, service)
        fetches == IF env.fetch THEN 1 ELSE 2
    IN  IF edit.err # "ok"
        THEN [Outcome(edit.err, cfg, d, <<>>, <<>>) EXCEPT !.fetches = fetches]
        ELSE IF ~env.push
        THEN [Outcome("push", cfg, d, <<edit.cfg>>, <<>>) EXCEPT !.fetches = fetches]
        ELSE [Outcome("ok", WireConfig(edit.cfg), d, <<edit.cfg>>, <<>>)
                EXCEPT !.fetches = fetches]

UpdatePublicHostnameRun(cfg, d, originalHostname, newHostname, path, service, env) ==
    LET edit == UpdateEdit(cfg, originalHostname, newHostname, path, service)
    IN  IF ~env.fetch THEN Outcome("fetch", cfg, d, <<>>, <<>>)
        ELSE IF edit.err # "ok" THEN Outcome(edit.err, cfg, d, <<>>, <<>>)
        ELSE IF ~env.push THEN Outcome("push", cfg, d, <<edit.cfg>>, <<>>)
        ELSE Outcome("ok", WireConfig(edit.cfg), d, <<edit.cfg>>, <<>>)

RemovePublicHostnameRun(cfg, d, hostname, path, env) ==
    LET edit == RemoveEdit(cfg, hostname, path)
    IN  IF ~env.fetch THEN Outcome("fetch", cfg, d, <<>>, <<>>)
        ELSE IF edit.err # "ok" THEN Outcome(edit.err, cfg, d, <<>>, <<>>)
        ELSE IF ~env.push THEN Outcome("push", cfg, d, <<edit.cfg>>, <<>>)
        ELSE Outcome("ok", WireConfig(edit.cfg), d, <<edit.cfg>>, <<>>)

(***************************************************************************)
(* State of the hostname editor.                                           *)
(***************************************************************************)
VARIABLES
    remote,   \* the tunnel configuration the remote service holds
    dns,      \* the DNS records of the selected zone
    last,     \* the last handler call: arguments, state before, outcome
    prev,     \* the call before it, kept when it was a successful add
    calls,    \* number of handler calls so far
    editors,  \* the handler calls in flight, one per concurrent editor
    pushLog   \* the Pushes the concurrent editors have made, in order

ingressVars == <<remote, dns, last, prev, calls, editors, pushLog>>

(***************************************************************************)
(* State of the process supervisor.                                        *)
(***************************************************************************)
VARIABLES
    processes,  \* tm.processes: name -> entry, NoEntry when absent
    os,         \* the subprocesses: pid -> state, exit status, context
    mon,        \* the monitorProcess goroutine of each spawned process
    writer,     \* the task holding tm.mutex for writing, or "none"
    pc,         \* where each caller task is
    op,         \* the call a task is in: name, pid, config
    ret,        \* what the call that returned in the last step returned
    cancelled,  \* the contexts that have been cancelled
    waiters,    \* pid -> a Wait goroutine left behind by stopProcess
    started,    \* names started successfully with no stop issued since
    stopped     \* names StopTunnel succeeded on with no start since

procVars == <<processes, os, mon, writer, pc, op, ret, cancelled, waiters,
              started, stopped>>

(***************************************************************************)
(* State of the tunnel status query.                                       *)
(***************************************************************************)
VARIABLES
    conns,      \* the tunnel's connections as cloudflared reports them:
                \* is_pending_reconnect of each
    statusRet   \* what the last CloudflareClient.GetTunnelStatus returned

statusVars == <<conns, statusRet>>

(***************************************************************************)
(* State of the validation of a tunnel config file.                        *)
(***************************************************************************)
VARIABLES
    configFile,   \* the TunnelConfigFile handed to ValidateTunnelConfig
    validateRet   \* what the last ValidateTunnelConfig returned

validateVars == <<configFile, validateRet>>

(***************************************************************************)
(* State of KillOrphanedProcesses.                                         *)
(***************************************************************************)
VARIABLES
    orphan   \* the call of KillOrphanedProcesses under way: its position,
             \* the pids of the pgrep output still to check, the pid and
             \* the registry of the last check, the signals sent with the
             \* registry each was checked against, and what it returned


(***************************************************************************)
(* State of the terminal user interface.                                   *)
(***************************************************************************)
VARIABLES
    tui   \* the bubbletea Model: the lists shown, the selected positions,
          \* the view flags; with it the commands Update has returned that
          \* have not delivered their message yet, and whether an index
          \* expression of Update has panicked

\* the Model NewModel returns, with the loadTunnels command of Init
NewModel ==
    [tunnelsList |-> <<>>, tunnelHostnames |-> <<>>,
     selectedTunnel |-> 0, selectedHostnameIndex |-> 0,
     selectedTunnelID |-> "", selectedHostname |-> "",
     showTunnelHostnames |-> FALSE, showAddHostname |-> FALSE,
     showEditHostname |-> FALSE, showHelp |-> FALSE, loading |-> FALSE,
     cmds |-> {"loadTunnels"}, panic |-> FALSE]

vars == <<remote, dns, last, prev, calls, editors, pushLog, processes, os, mon,
          writer, pc, op, ret, cancelled, waiters, started, stopped, conns,
          statusRet, configFile, validateRet, orphan, tui>>

NoOrphan == [pc |-> "idle", todo |-> {}, pid |-> 0, sent |-> {}, ret |-> "none"]

NoStatus == [status |-> "none"]
NoConfigFile == [tunnelID |-> "", ingress |-> <<>>]
NoValidate == [err |-> "none"]


NoCall == [kind |-> "none"]

\* the instances of the tool that edit the same tunnel
Editors == {"e1", "e2"}

NoEditor == [pc |-> "idle"]

Call(kind, h, nh, p, s, out) ==
    [kind |-> kind, h |-> h, nh |-> nh, p |-> p, s |-> s,
     pre |-> remote, dnsPre |-> dns, err |-> out.err,
     fetches |-> out.fetches, pushed |-> out.pushed, dnsOps |-> out.dnsOps,
     dnsErr |-> out.dnsErr]

\* what is kept of a call once the next one has run
Remember(call) ==
    IF call.kind = "add" /\ call.err = "ok"
    THEN [kind |-> "add", h |-> call.h, p |-> call.p, s |-> call.s, pre |-> call.pre]
    ELSE NoCall

InitIngress ==
    /\ remote \in InitConfigs
    /\ dns = {}
    /\ last = NoCall
    /\ prev = NoCall
    /\ calls = 0
    /\ editors = [e \in Editors |-> NoEditor]
    /\ pushLog = <<>>
    /\ conns = <<>>
    /\ statusRet = NoStatus
    /\ configFile = NoConfigFile
    /\ validateRet = NoValidate
    /\ orphan = NoOrphan
    /\ tui = NewModel

Finish(call, out) ==
    /\ UNCHANGED <<procVars, editors, pushLog, statusVars, validateVars, orphan, tui>>
    /\ remote' = out.remote
    /\ dns' = out.dns
    /\ last' = call
    /\ prev' = Remember(last)
    /\ calls' = calls + 1

\* the handlers that issue no DNS call take no DNS fault
EditEnvs == {env \in Envs : env.dns = "none"}

AddPublicHostname ==
    /\ calls < MaxCalls
    /\ \E hostname \in Hostnames, path \in Paths, service \in Services, env \in Envs :
          LET out == AddPublicHostnameRun(remote, dns, hostname, path, service, env)
          IN  Finish(Call("add", hostname, "", path, service, out), out)

UpdatePublicHostname ==
    /\ calls < MaxCalls
    /\ \E originalHostname \in Hostnames, newHostname \in Hostnames,
          path \in Paths, service \in Services, env \in EditEnvs :
          LET out == UpdatePublicHostnameRun(remote, dns, originalHostname,
                                             newHostname, path, service, env)
          IN  Finish(Call("update", originalHostname, newHostname, path, service, out), out)

RemovePublicHostname ==
    /\ calls < MaxCalls
    /\ \E hostname \in Hostnames, path \in Paths, env \in EditEnvs :
          LET out == RemovePublicHostnameRun(remote, dns, hostname, path, env)
          IN  Finish(Call("remove", hostname, "", path, "", out), out)

NextIngress ==
    \/ AddPublicHostname
    \/ UpdatePublicHostname
    \/ RemovePublicHostname

(***************************************************************************)
(* The process supervisor: TunnelManager.                                  *)
(***************************************************************************)
\* number of subprocesses spawned in one behaviour
MaxProcs == 2

Names == {"web"}
Tasks == {"T1"}
Pids == 1..MaxProcs
\* the context handed to a Start call; only "request" is ever cancelled
Contexts == {"background", "request"}
\* the *TunnelConfigFile handed to StartTunnel
ConfigFiles == {"nil", "cfg"}

StatusActive == "active"
StatusInactive == "inactive"
StatusError == "error"

NoEntry == [pid |-> 0]
\* TunnelProcess: Process is the handle of subprocess pid
Entry(pid, status, config) == [pid |-> pid, status |-> status, config |-> config]

\* exit: "clean" and "abnormal" when the process ended by itself, "killed"
\* after Process.Kill, "cancelled" when its command's context killed it
NoProc == [state |-> "none", exit |-> "", ctx |-> ""]
NoMon == [pc |-> "none", name |-> "", err |-> FALSE]
NoOp == [name |-> "", pid |-> 0, config |-> "nil"]
NoRet == [op |-> "none"]

InitProc ==
    /\ processes = [n \in Names |-> NoEntry]
    /\ os = [p \in Pids |-> NoProc]
    /\ mon = [p \in Pids |-> NoMon]
    /\ writer = "none"
    /\ pc = [t \in Tasks |-> "idle"]
    /\ op = [t \in Tasks |-> NoOp]
    /\ ret = NoRet
    /\ cancelled = {}
    /\ waiters = [p \in Pids |-> FALSE]
    /\ started = {}
    /\ stopped = {}

\* os.Process.Signal fails once a Wait on the process has completed
SignalOk(pid) == os[pid].state # "reaped"

\* TunnelProcess.IsRunning: Signal(0) returns no error
IsRunning(e) == e.pid # 0 /\ SignalOk(e.pid)

FreePids == {p \in Pids : os[p].state = "none"}

\* a check on the recorded status instead of the process: what Start would
\* refuse if it read Status rather than call IsRunning
AlreadyRunningByStatus(name) ==
    processes[name] # NoEntry /\ processes[name].status = StatusActive

\* the check StartTunnel and StartTunnelWithURL make first
AlreadyRunning(name) == processes[name] # NoEntry /\ IsRunning(processes[name])

\* what a Start call returns, with the registry entry it leaves
StartRet(t, kind, name, err, entry) ==
    [task |-> t, op |-> kind, name |-> name, err |-> err,
     wasRunning |-> processes[name] # NoEntry /\ IsRunning(processes[name]),
     wasStarted |-> name \in started,
     before |-> processes[name], after |-> entry,
     spawned |-> entry # processes[name]]

\* an early return of a Start that drops the entry of the name: what a
\* Start would leave if it cleared the registry slot before spawning
StartFailDropsEntry(t, kind, name, err) ==
    /\ ret' = StartRet(t, kind, name, err, NoEntry)
    /\ processes' = [processes EXCEPT ![name] = NoEntry]
    /\ UNCHANGED <<os, mon, started, stopped>>

\* an early return of StartTunnel / StartTunnelWithURL: the error is
\* returned before anything is written
StartFail(t, kind, name, err) ==
    /\ ret' = StartRet(t, kind, name, err, processes[name])
    /\ UNCHANGED <<processes, os, mon, started, stopped>>

\* the body of StartTunnel / StartTunnelWithURL under the write lock; a
\* config is saved to its file first, exec.CommandContext refuses to start
\* under a context that is already done
StartBody(t, kind, name, config, ctx, saveOk, spawnOk) ==
    LET new == CHOOSE p \in FreePids : \A q \in FreePids : p <= q
    IN  IF AlreadyRunning(name) THEN StartFail(t, kind, name, "conflict")
        ELSE IF config # "nil" /\ ~saveOk THEN StartFail(t, kind, name, "save")
        ELSE IF ~spawnOk \/ ctx \in cancelled THEN StartFail(t, kind, name, "spawn")
        ELSE /\ processes' = [processes EXCEPT ![name] = Entry(new, StatusActive, config)]
             /\ os' = [os EXCEPT ![new] = [state |-> "running", exit |-> "", ctx |-> ctx]]
             /\ mon' = [mon EXCEPT ![new] = [pc |-> "wait", name |-> name, err |-> FALSE]]
             /\ ret' = StartRet(t, kind, name, "ok", Entry(new, StatusActive, config))
             /\ started' = started \cup {name}
             /\ stopped' = stopped \ {name}

\* StartTunnel, called by a task or by RestartTunnel (which still holds the
\* lock): it begins by taking tm.mutex
StartTunnel(t) ==
    /\ pc[t] \in {"idle", "restart.start"}
    /\ writer = "none"
    /\ \E name \in (IF pc[t] = "idle" THEN Names ELSE {op[t].name}),
          config \in (IF pc[t] = "idle" THEN ConfigFiles ELSE {op[t].config}),
          ctx \in (IF pc[t] = "idle" THEN Contexts ELSE {"background"}),
          saveOk \in BOOLEAN,
          spawnOk \in (IF FreePids # {} THEN BOOLEAN ELSE {FALSE}) :
            StartBody(t, IF pc[t] = "idle" THEN "start" ELSE "restart",
                      name, config, ctx, saveOk, spawnOk)
    /\ pc' = [pc EXCEPT ![t] = "idle"]
    /\ op' = [op EXCEPT ![t] = NoOp]
    /\ UNCHANGED <<writer, cancelled, waiters>>
    /\ UNCHANGED <<ingressVars, statusVars, validateVars, orphan, tui>>

StartTunnelWithURL(t) ==
    /\ pc[t] = "idle"
    /\ writer = "none"
    /\ \E name \in Names, ctx \in Contexts,
          spawnOk \in (IF FreePids # {} THEN BOOLEAN ELSE {FALSE}) :
            StartBody(t, "starturl", name, "nil", ctx, TRUE, spawnOk)
    /\ UNCHANGED <<writer, pc, op, cancelled, waiters>>
    /\ UNCHANGED <<ingressVars, statusVars, validateVars, orphan, tui>>

\* what StopTunnel or RestartTunnel returns; status is the entry's status
\* at that moment
StopRet(t, kind, name, err, found, status, via, kill) ==
    [task |-> t, op |-> kind, name |-> name, err |-> err, found |-> found,
     status |-> status, via |-> via, kill |-> kill]

\* StopTunnel / RestartTunnel up to the select of stopProcess: the lookup
\* and the SIGTERM
StopBegin(t, kind, name) ==
    LET e == processes[name]
    IN  IF e = NoEntry
        THEN /\ ret' = StopRet(t, kind, name, "notfound", FALSE, "", "none", "none")
             /\ UNCHANGED <<writer, pc, op, started>>
        ELSE IF ~SignalOk(e.pid)
        THEN /\ ret' = StopRet(t, kind, name, "sigterm", TRUE, e.status, "none", "none")
             /\ started' = started \ {name}
             /\ UNCHANGED <<writer, pc, op>>
        ELSE /\ writer' = t
             /\ pc' = [pc EXCEPT ![t] = kind \o ".select"]
             /\ op' = [op EXCEPT ![t] = [name |-> name, pid |-> e.pid, config |-> e.config]]
             /\ started' = started \ {name}
             /\ ret' = NoRet

StopTunnel(t) ==
    /\ pc[t] = "idle"
    /\ writer = "none"
    /\ \E name \in Names : StopBegin(t, "stop", name)
    /\ UNCHANGED <<processes, os, mon, cancelled, waiters, stopped>>
    /\ UNCHANGED <<ingressVars, statusVars, validateVars, orphan, tui>>

RestartTunnel(t) ==
    /\ pc[t] = "idle"
    /\ writer = "none"
    /\ \E name \in Names : StopBegin(t, "restart", name)
    /\ UNCHANGED <<processes, os, mon, cancelled, waiters, stopped>>
    /\ UNCHANGED <<ingressVars, statusVars, validateVars, orphan, tui>>

\* stopProcess sets the entry's status when set, and returns err
StopProcessEnd(name, err, set) ==
    IF set THEN [processes[name] EXCEPT !.status = StatusInactive]
    ELSE processes[name]

\* how stopProcess ends for its caller: StopTunnel returns err; RestartTunnel
\* returns an error, or deletes the entry and goes on to StartTunnel
StopEnd(t, err, set, via, kill) ==
    LET name == op[t].name
        entry == StopProcessEnd(name, err, set)
    IN  IF pc[t] = "stop.select"
        THEN /\ processes' = [processes EXCEPT ![name] = entry]
             /\ ret' = StopRet(t, "stop", name, err, TRUE, entry.status, via, kill)
             /\ stopped' = IF err = "ok" THEN stopped \cup {name} ELSE stopped
             /\ writer' = "none"
             /\ pc' = [pc EXCEPT ![t] = "idle"]
             /\ op' = [op EXCEPT ![t] = NoOp]
        ELSE IF err # "ok"
        THEN /\ processes' = [processes EXCEPT ![name] = entry]
             /\ ret' = StopRet(t, "restart", name, err, TRUE, entry.status, via, kill)
             /\ writer' = "none"
             /\ pc' = [pc EXCEPT ![t] = "idle"]
             /\ op' = [op EXCEPT ![t] = NoOp]
             /\ UNCHANGED stopped
        ELSE /\ processes' = [processes EXCEPT ![name] = NoEntry]
             /\ pc' = [pc EXCEPT ![t] = "restart.start"]
             /\ ret' = StopRet(t, "restart.stop", name, err, TRUE, "", via, kill)
             /\ UNCHANGED <<writer, op, stopped>>

\* a done case that kills as well: what stopProcess would do if it issued
\* the Kill after the select, whichever case was taken
StopDoneKills(t) ==
    /\ pc[t] \in {"stop.select", "restart.select"}
    /\ os[op[t].pid].state \in {"exited", "reaped"}
    /\ os' = [os EXCEPT ![op[t].pid].state = "reaped"]
    /\ StopEnd(t, IF os[op[t].pid].state = "reaped" THEN "wait" ELSE "ok", TRUE,
               "done", "failed")
    /\ UNCHANGED <<mon, cancelled, waiters, started>>
    /\ UNCHANGED <<ingressVars, statusVars, validateVars, orphan, tui>>

\* stopProcess, case err := <-done: the Wait goroutine has returned, with
\* an error when another Wait had collected the process before it
StopDone(t) ==
    /\ pc[t] \in {"stop.select", "restart.select"}
    /\ os[op[t].pid].state \in {"exited", "reaped"}
    /\ os' = [os EXCEPT ![op[t].pid].state = "reaped"]
    /\ StopEnd(t, IF os[op[t].pid].state = "reaped" THEN "wait" ELSE "ok", TRUE,
               "done", "none")
    /\ UNCHANGED <<mon, cancelled, waiters, started>>
    /\ UNCHANGED <<ingressVars, statusVars, validateVars, orphan, tui>>

\* stopProcess, case <-time.After: Kill, which fails once a Wait on the
\* process has completed (collected tells whether the Wait goroutine of
\* this call has by then); the Wait goroutine is left behind
StopTimeout(t) ==
    /\ pc[t] \in {"stop.select", "restart.select"}
    /\ LET pid == op[t].pid
       IN  \E collected \in (IF os[pid].state = "exited" THEN BOOLEAN ELSE {FALSE}) :
             IF os[pid].state = "reaped" \/ collected
             THEN /\ os' = [os EXCEPT ![pid].state = "reaped"]
                  /\ StopEnd(t, "kill", FALSE, "timeout", "failed")
                  /\ UNCHANGED waiters
             ELSE /\ os' = [os EXCEPT ![pid] =
                              IF @.state = "running"
                              THEN [@ EXCEPT !.state = "exited", !.exit = "killed"]
                              ELSE @]
                  /\ StopEnd(t, "ok", TRUE, "timeout", "sent")
                  /\ waiters' = [waiters EXCEPT ![pid] = TRUE]
    /\ UNCHANGED <<mon, cancelled, started>>
    /\ UNCHANGED <<ingressVars, statusVars, validateVars, orphan, tui>>

\* a Wait goroutine left behind by stopProcess collects the exited process
LeftoverWait(pid) ==
    /\ waiters[pid]
    /\ os[pid].state = "exited"
    /\ os' = [os EXCEPT ![pid].state = "reaped"]
    /\ waiters' = [waiters EXCEPT ![pid] = FALSE]
    /\ ret' = NoRet
    /\ UNCHANGED <<processes, mon, writer, pc, op, cancelled, started, stopped>>
    /\ UNCHANGED <<ingressVars, statusVars, validateVars, orphan, tui>>

\* monitorProcess: cmd.Wait returns; err is nil only for a clean exit that
\* this Wait collected itself
MonitorWait(pid) ==
    /\ mon[pid].pc = "wait"
    /\ os[pid].state \in {"exited", "reaped"}
    /\ mon' = [mon EXCEPT ![pid].pc = "lock",
                          ![pid].err = ~(os[pid].state = "exited" /\ os[pid].exit = "clean")]
    /\ os' = [os EXCEPT ![pid].state = "reaped"]
    /\ ret' = NoRet
    /\ UNCHANGED <<processes, writer, pc, op, cancelled, waiters, started, stopped>>
    /\ UNCHANGED <<ingressVars, statusVars, validateVars, orphan, tui>>

\* the status monitorProcess writes
MonitorStatus(err) == IF err THEN StatusError ELSE StatusInactive

\* monitorProcess: under the write lock, record the status in the entry
\* registered under the tunnel name
MonitorRecord(pid) ==
    /\ mon[pid].pc = "lock"
    /\ writer = "none"
    /\ processes' =
          IF processes[mon[pid].name] # NoEntry
          THEN [processes EXCEPT ![mon[pid].name].status = MonitorStatus(mon[pid].err)]
          ELSE processes
    /\ mon' = [mon EXCEPT ![pid].pc = "done"]
    /\ ret' = NoRet
    /\ UNCHANGED <<os, writer, pc, op, cancelled, waiters, started, stopped>>
    /\ UNCHANGED <<ingressVars, statusVars, validateVars, orphan, tui>>

\* TunnelManager.GetTunnelStatus, under the read lock: the status of the
\* entry, which it sets to Inactive when the process is no longer running
GetTunnelStatus(t) ==
    /\ pc[t] = "idle"
    /\ writer = "none"
    /\ \E name \in Names :
          LET e == processes[name]
              after == IF e # NoEntry /\ ~IsRunning(e)
                       THEN [e EXCEPT !.status = StatusInactive]
                       ELSE e
          IN  /\ processes' = [processes EXCEPT ![name] = after]
              /\ ret' = [task |-> t, op |-> "status", name |-> name, err |-> "ok",
                         lock |-> "read",
                         status |-> IF e = NoEntry THEN StatusInactive ELSE after.status,
                         before |-> e, after |-> after]
    /\ UNCHANGED <<os, mon, writer, pc, op, cancelled, waiters, started, stopped>>
    /\ UNCHANGED <<ingressVars, statusVars, validateVars, orphan, tui>>

\* the subprocess exits by itself, also in answer to SIGTERM
ProcExit(pid) ==
    /\ os[pid].state = "running"
    /\ \E exit \in {"clean", "abnormal"} :
          os' = [os EXCEPT ![pid] = [@ EXCEPT !.state = "exited", !.exit = exit]]
    /\ ret' = NoRet
    /\ UNCHANGED <<processes, mon, writer, pc, op, cancelled, waiters, started, stopped>>
    /\ UNCHANGED <<ingressVars, statusVars, validateVars, orphan, tui>>

\* the caller of a Start cancels the context it passed
CancelContext ==
    /\ "request" \notin cancelled
    /\ cancelled' = cancelled \cup {"request"}
    /\ ret' = NoRet
    /\ UNCHANGED <<processes, os, mon, writer, pc, op, waiters, started, stopped>>
    /\ UNCHANGED <<ingressVars, statusVars, validateVars, orphan, tui>>

\* exec.CommandContext: while the process runs, the command's context
\* being done kills it
ContextKill(pid) ==
    /\ os[pid].state = "running"
    /\ os[pid].ctx \in cancelled
    /\ os' = [os EXCEPT ![pid] = [@ EXCEPT !.state = "exited", !.exit = "cancelled"]]
    /\ ret' = NoRet
    /\ UNCHANGED <<processes, mon, writer, pc, op, cancelled, waiters, started, stopped>>
    /\ UNCHANGED <<ingressVars, statusVars, validateVars, orphan, tui>>

NextProc ==
    \/ \E t \in Tasks : StartTunnel(t)
    \/ \E t \in Tasks : StartTunnelWithURL(t)
    \/ \E t \in Tasks : StopTunnel(t)
    \/ \E t \in Tasks : RestartTunnel(t)
    \/ \E t \in Tasks : StopDone(t)
    \/ \E t \in Tasks : StopTimeout(t)
    \/ \E p \in Pids : LeftoverWait(p)
    \/ \E p \in Pids : MonitorWait(p)
    \/ \E p \in Pids : MonitorRecord(p)
    \/ \E t \in Tasks : GetTunnelStatus(t)
    \/ \E p \in Pids : ProcExit(p)
    \/ CancelContext
    \/ \E p \in Pids : ContextKill(p)

(***************************************************************************)
(* Specifications: the hostname editor and the supervisor are independent, *)
(* each is checked with the other at rest.                                 *)
(***************************************************************************)
InitIngressSpec == InitIngress /\ InitProc

SpecIngress == InitIngressSpec /\ [][NextIngress]_vars

InitProcSpec ==
    /\ InitProc
    /\ remote = Config(<<CatchAll>>, FALSE)
    /\ dns = {}
    /\ last = NoCall
    /\ prev = NoCall
    /\ calls = 0
    /\ editors = [e \in Editors |-> NoEditor]
    /\ pushLog = <<>>
    /\ conns = <<>>
    /\ statusRet = NoStatus
    /\ configFile = NoConfigFile
    /\ validateRet = NoValidate
    /\ orphan = NoOrphan
    /\ tui = NewModel

SpecProc == InitProcSpec /\ [][NextProc]_vars

(***************************************************************************)
(* Concurrent editors.  A handler makes its remote calls one after the     *)
(* other with nothing held in between: GetTunnelConfiguration, then        *)
(* UpdateTunnelConfiguration, then for an add the DNS calls.  Each editor  *)
(* runs one handler call, a step per remote call.                          *)
(***************************************************************************)
\* the arguments the concurrent editors call with
RacePaths == {"", "/api"}
RaceFaults == {"none", "create"}

EditorCall(kind, h, nh, p, s) ==
    [pc |-> "fetched", kind |-> kind, h |-> h, nh |-> nh, p |-> p, s |-> s,
     fetched |-> remote, seen |-> Len(pushLog), err |-> ""]

EditorCalls ==
    {EditorCall("add", h, "", p, SvcOne) : h \in Hostnames, p \in RacePaths}
        \cup {EditorCall("update", h, nh, p, SvcOne) :
                    h \in Hostnames, nh \in Hostnames, p \in RacePaths}
        \cup {EditorCall("remove", h, "", p, "") : h \in Hostnames, p \in RacePaths}

\* a handler returns
EditorDone(e, err) == [editors EXCEPT ![e].pc = "done", ![e].err = err]

\* the edit of the handler call c on the config cfg
EditOn(c, cfg) ==
    IF c.kind = "add" THEN AddEdit(cfg, c.h, c.p, c.s)
    ELSE IF c.kind = "update" THEN UpdateEdit(cfg, c.h, c.nh, c.p, c.s)
    ELSE RemoveEdit(cfg, c.h, c.p)

\* the config a handler would edit if it fetched again right before its
\* push
EditBaseFresh(e) == remote

\* the config a handler edits: the one its own fetch returned
EditBase(e) == editors[e].fetched

\* the handler's GetTunnelConfiguration call
EditorFetch(e) ==
    /\ editors[e].pc = "idle"
    /\ \E c \in EditorCalls, ok \in BOOLEAN :
          editors' = IF ok THEN [editors EXCEPT ![e] = c]
                     ELSE [editors EXCEPT ![e] = [c EXCEPT !.pc = "done", !.err = "fetch"]]
    /\ UNCHANGED <<remote, dns, last, prev, calls, pushLog>>
    /\ UNCHANGED <<procVars, statusVars, validateVars, orphan, tui>>

\* the edit on the fetched config and the handler's
\* UpdateTunnelConfiguration call
EditorPush(e) ==
    /\ editors[e].pc = "fetched"
    /\ LET edit == EditOn(editors[e], EditBase(e))
       IN  IF edit.err # "ok"
           THEN /\ editors' = EditorDone(e, edit.err)
                /\ UNCHANGED <<remote, pushLog>>
           ELSE \E ok \in BOOLEAN :
                  IF ~ok
                  THEN /\ editors' = EditorDone(e, "push")
                       /\ UNCHANGED <<remote, pushLog>>
                  ELSE /\ remote' = WireConfig(edit.cfg)
                       /\ pushLog' = Append(pushLog, [editor |-> e, cfg |-> edit.cfg])
                       /\ editors' = IF editors[e].kind = "add"
                                     THEN [editors EXCEPT ![e].pc = "pushed"]
                                     ELSE EditorDone(e, "ok")
    /\ UNCHANGED <<dns, last, prev, calls>>
    /\ UNCHANGED <<procVars, statusVars, validateVars, orphan, tui>>

\* the DNS step of AddPublicHostname
EditorDNS(e) ==
    /\ editors[e].pc = "pushed"
    /\ \E fault \in RaceFaults :
          LET step == AddDNSStep(dns, editors[e].h, fault)
          IN  /\ dns' = step.dns
              /\ editors' = EditorDone(e, AddReturn(step.err))
    /\ UNCHANGED <<remote, last, prev, calls, pushLog>>
    /\ UNCHANGED <<procVars, statusVars, validateVars, orphan, tui>>

NextRace ==
    \/ \E e \in Editors : EditorFetch(e)
    \/ \E e \in Editors : EditorPush(e)
    \/ \E e \in Editors : EditorDNS(e)

InitRaceSpec == InitIngress /\ InitProc

SpecRace == InitRaceSpec /\ [][NextRace]_vars

(***************************************************************************)
(* CloudflareClient.GetTunnelStatus: the status of a tunnel from the       *)
(* connections `cloudflared tunnel info` reports.                          *)
(***************************************************************************)
MaxConns == 5

StatusUnknown == "unknown"

\* the connection lists a tunnel can have: is_pending_reconnect of each
ConnLists == UNION {[1..n -> BOOLEAN] : n \in 0..MaxConns}

StatusResult(status, err) == [status |-> status, err |-> err]

\* a status taken from the first connection alone
ClientTunnelStatusFirstConn(infoOk, cs) ==
    IF ~infoOk THEN StatusResult(StatusUnknown, TRUE)
    ELSE IF Len(cs) = 0 THEN StatusResult(StatusInactive, FALSE)
    ELSE IF ~cs[1] THEN StatusResult(StatusActive, FALSE)
    ELSE StatusResult(StatusInactive, FALSE)

\* what GetTunnelStatus returns: infoOk tells whether GetTunnelInfo
\* returned the tunnel, cs are its connections
ClientTunnelStatus(infoOk, cs) ==
    IF ~infoOk THEN StatusResult(StatusUnknown, TRUE)
    ELSE IF Len(cs) = 0 THEN StatusResult(StatusInactive, FALSE)
    ELSE IF \E i \in 1..Len(cs) : ~cs[i] THEN StatusResult(StatusActive, FALSE)
    ELSE StatusResult(StatusInactive, FALSE)

ClientGetTunnelStatus ==
    /\ \E infoOk \in BOOLEAN :
          statusRet' = [status |-> ClientTunnelStatus(infoOk, conns).status,
                        err |-> ClientTunnelStatus(infoOk, conns).err,
                        infoOk |-> infoOk, conns |-> conns]
    /\ UNCHANGED conns
    /\ UNCHANGED <<ingressVars, procVars, validateVars, orphan, tui>>

NextStatus == ClientGetTunnelStatus

InitStatusSpec ==
    /\ InitProc
    /\ remote = Config(<<CatchAll>>, FALSE)
    /\ dns = {}
    /\ last = NoCall
    /\ prev = NoCall
    /\ calls = 0
    /\ editors = [e \in Editors |-> NoEditor]
    /\ pushLog = <<>>
    /\ conns \in ConnLists
    /\ statusRet = NoStatus
    /\ configFile = NoConfigFile
    /\ validateRet = NoValidate
    /\ orphan = NoOrphan
    /\ tui = NewModel

SpecStatus == InitStatusSpec /\ [][NextStatus]_vars


(***************************************************************************)
(* Properties of the hostname editor.                                      *)
(***************************************************************************)
\* exactly one rule has an empty hostname and it is the last one
OneCatchAllLast(ingress) == CatchAllIdx(ingress) = {Len(ingress)}

\* C1: after any sequence of Add/Update/Remove calls, with any arguments,
\* on a config that began with exactly one rule without hostname, in last
\* position, the remote rule list still has exactly one such rule, last.
C1_CatchAllInvariant == OneCatchAllLast(remote.ingress)

\* C5: an AddPublicHostname that follows a successful AddPublicHostname of
\* the same hostname and the same normalized path, and whose fetch
\* succeeds, fails with a conflict, pushes nothing and leaves the remote
\* rule list as the first call left it.
C5_SecondAddConflicts ==
    (/\ last.kind = "add"
     /\ prev.kind = "add"
     /\ last.h = prev.h
     /\ NormPath(last.p) = NormPath(prev.p)
     /\ last.err # "fetch")
        => (last.err = "conflict" /\ last.pushed = <<>> /\ remote = last.pre)

\* C7: after RemovePublicHostname(h) has returned nil, the zone holds no
\* DNS record named h.
C7_RemoveDeletesDNS ==
    (last.kind = "remove" /\ last.err = "ok")
        => ~\E r \in dns : r.name = last.h

\* where AddPublicHostname is to put its rule in the fetched list: before
\* the first rule without hostname, or after the last rule
AddPlace(ingress) ==
    IF CatchAllIdx(ingress) # {} THEN Min(CatchAllIdx(ingress)) ELSE Len(ingress) + 1

\* the pushed list is the fetched one with one rule of the given hostname,
\* normalized path and service put in at AddPlace
AddedAt(before, after, hostname, path, service) ==
    LET k == AddPlace(before)
    IN  /\ Len(after) = Len(before) + 1
        /\ after[k].hostname = hostname
        /\ NormPath(after[k].path) = NormPath(path)
        /\ after[k].service = service
        /\ RemoveAt(after, k) = before

Listed(ingress, hostname, service) ==
    \E i \in 1..Len(PublicHostnames(ingress)) :
        /\ PublicHostnames(ingress)[i].hostname = hostname
        /\ PublicHostnames(ingress)[i].service = service

\* C9, as claimed: a successful AddPublicHostname(h, p, s) leaves the rule
\* (h, normalize(p), s) right before the first rule without hostname of the
\* fetched list (last when there is none), the other rules as they were,
\* and GetPublicHostnames then lists h with service s.
C9_AddPlacesRule_Claimed ==
    (last.kind = "add" /\ last.err = "ok")
        => /\ AddedAt(last.pre.ingress, remote.ingress, last.h, last.p, last.s)
           /\ Listed(remote.ingress, last.h, last.s)

\* C9, amended: the rule carries service s, or http://localhost:8080 when
\* s is empty; GetPublicHostnames lists h with that service when h is not
\* empty, and lists no rule without hostname when h is empty.
C9_AddPlacesRule ==
    (last.kind = "add" /\ last.err = "ok")
        => /\ AddedAt(last.pre.ingress, remote.ingress, last.h, last.p,
                      IF last.s = "" THEN DefaultService ELSE last.s)
           /\ last.h # "" =>
                Listed(remote.ingress, last.h,
                       IF last.s = "" THEN DefaultService ELSE last.s)
           /\ last.h = "" =>
                \A i \in 1..Len(PublicHostnames(remote.ingress)) :
                    PublicHostnames(remote.ingress)[i].hostname # ""

\* an add on a list with a rule without hostname and two rules before it,
\* with the default service
C9_Witness ==
    /\ last.kind = "add" /\ last.err = "ok" /\ last.s = "" /\ last.h = HostB
    /\ Len(last.pre.ingress) = 3
    /\ remote.ingress[3].hostname = HostB
    /\ remote.ingress[3].service = DefaultService
    /\ remote.ingress[4].hostname = ""

\* (hostname, normalized path) names a rule of the list
Present(ingress, hostname, path) ==
    \E i \in 1..Len(ingress) :
        ingress[i].hostname = hostname /\ NormPath(ingress[i].path) = NormPath(path)

\* the successful add (h, p) on a valid config without (h, normalize(p)),
\* h not empty, followed by the successful remove (h, p)
AddThenRemove ==
    /\ last.kind = "remove" /\ last.err = "ok"
    /\ prev.kind = "add"
    /\ last.h = prev.h /\ last.p = prev.p
    /\ prev.h # ""
    /\ OneCatchAllLast(prev.pre.ingress)
    /\ ~Present(prev.pre.ingress, prev.h, prev.p)

\* C10: AddPublicHostname(h, p, s) then RemovePublicHostname(h, p), h not
\* empty and (h, normalize(p)) not in the valid config, gives back the
\* original rule list: same rules, same order.
C10_AddRemoveRoundTrip == AddThenRemove => remote.ingress = prev.pre.ingress

\* the round trip on a list that holds another rule of the same hostname
C10_Witness ==
    /\ AddThenRemove
    /\ remote.ingress = prev.pre.ingress
    /\ \E i \in 1..Len(remote.ingress) : remote.ingress[i].hostname = last.h

(***************************************************************************)
(* Properties of the supervisor.                                           *)
(***************************************************************************)
\* C2: when StopTunnel has found an entry (which always holds a process
\* handle), the entry's status is Inactive when StopTunnel returns, whatever
\* the outcome.
C2_StopLeavesInactive ==
    (ret.op = "stop" /\ ret.found) => ret.status = StatusInactive

\* C3: a RestartTunnel whose stop succeeded and which has removed the old
\* entry goes on through StartTunnel: the StartTunnel it calls can take the
\* registry lock, so that the call returns.
C3_RestartGoesOn ==
    \A t \in Tasks : pc[t] = "restart.start" => ENABLED StartTunnel(t)

\* C4, as claimed: a Start for a name that was started successfully, with no
\* Stop issued since, returns a conflict, spawns nothing and leaves the
\* entry as it was.
C4_SecondStartConflicts_Claimed ==
    (ret.op \in {"start", "starturl"} /\ ret.wasStarted)
        => (ret.err = "conflict" /\ ~ret.spawned /\ ret.after = ret.before)

\* C4, amended: a Start for a name whose entry holds a process that has not
\* been waited for yet (IsRunning) returns a conflict, spawns nothing and
\* leaves the entry as it was.
C4_SecondStartConflicts ==
    (ret.op \in {"start", "starturl"} /\ ret.wasRunning)
        => (ret.err = "conflict" /\ ~ret.spawned /\ ret.after = ret.before)

\* the second Start, no Stop since the first, is refused while the first
\* process runs
C4_Witness ==
    /\ ret.op \in {"start", "starturl"} /\ ret.wasStarted /\ ret.wasRunning
    /\ ret.err = "conflict"
    /\ processes[ret.name] = ret.before
    /\ os[ret.before.pid].state = "running"

\* C6: once StopTunnel(name) has returned success, the entry's status is
\* Inactive in every later state until a new Start for that name.
C6_StoppedStaysInactive ==
    \A n \in stopped :
        processes[n] # NoEntry => processes[n].status = StatusInactive

\* C8: no subprocess is ended by the cancellation of the context that was
\* passed to the Start call that spawned it.
C8_CancelDoesNotKill == \A p \in Pids : os[p].exit # "cancelled"


(***************************************************************************)
(* Further properties of the hostname editor.                              *)
(***************************************************************************)
\* no two rules with a hostname share (hostname, normalized path)
UniquePairs(ingress) ==
    \A i, j \in 1..Len(ingress) :
        (/\ i < j
         /\ ingress[i].hostname # ""
         /\ ingress[i].hostname = ingress[j].hostname)
            => NormPath(ingress[i].path) # NormPath(ingress[j].path)

\* C11: after any sequence of successful Add/Update/Remove calls from a
\* valid config, no two rules with a hostname share the same hostname and
\* normalized path (a stored empty path and "*" count as the same path).
C11_UniquePairs == UniquePairs(remote.ingress)

\* what Validate is to enforce on a rule list: one rule without hostname,
\* in last position, and a service in every rule
ValidIngress(ingress) ==
    /\ OneCatchAllLast(ingress)
    /\ \A i \in 1..Len(ingress) : ingress[i].service # ""

\* C12: every rule list a handler sends in a Push has a unique last rule
\* without hostname and no rule with an empty service.
C12_PushedIsValid ==
    last.kind # "none" =>
        \A i \in 1..Len(last.pushed) : ValidIngress(last.pushed[i].ingress)


\* C13: when the Push of AddPublicHostname succeeds and the DNS step after
\* it fails (tunnel-info lookup or record creation), AddPublicHostname
\* returns success, has issued that one Push only, and the remote config is
\* the pushed one, with the new rule in it.
C13_DNSFailureKeepsRule ==
    (last.kind = "add" /\ last.dnsErr \notin {"none", "ok"})
        => /\ last.err = "ok"
           /\ Len(last.pushed) = 1
           /\ remote = WireConfig(last.pushed[1])
           /\ Len(remote.ingress) = Len(last.pre.ingress) + 1
           /\ \E i \in 1..Len(remote.ingress) : remote.ingress[i].hostname = last.h

\* an add whose record creation failed after the push, leaving the zone
\* without a record for the hostname
C13_Witness ==
    /\ last.kind = "add" /\ last.dnsErr = "create" /\ last.err = "ok"
    /\ last.h = HostA
    /\ remote # last.pre
    /\ ~\E r \in dns : r.name = HostA


(***************************************************************************)
(* Properties of concurrent editors.                                       *)
(***************************************************************************)
\* editors a and b have both returned after the interleaving Fetch(a),
\* Fetch(b), Push(a), Push(b): both fetched before any Push, a pushed
\* first, b second
LostUpdateRace(a, b) ==
    /\ a # b
    /\ editors[a].pc = "done" /\ editors[b].pc = "done"
    /\ Len(pushLog) = 2
    /\ pushLog[1].editor = a /\ pushLog[2].editor = b
    /\ editors[a].seen = 0 /\ editors[b].seen = 0

\* C14: when two handler calls interleave as Fetch1, Fetch2, Push1, Push2,
\* both return success and the remote config is the one Push2 sent, which
\* is the edit of call 2 alone on the config from before Push1: the edit of
\* call 1 is overwritten and no conflict is reported.
C14_LastPushWins ==
    \A a, b \in Editors :
        LostUpdateRace(a, b)
            => /\ editors[a].err = "ok" /\ editors[b].err = "ok"
               /\ remote = WireConfig(pushLog[2].cfg)
               /\ pushLog[2].cfg = EditOn(editors[b], editors[a].fetched).cfg

\* the race of an add of HostB with a removal of HostA: HostA is gone and
\* the added HostB rule is not in the remote config
C14_Witness ==
    /\ LostUpdateRace("e1", "e2")
    /\ editors["e1"].kind = "add" /\ editors["e1"].h = HostB
    /\ editors["e2"].kind = "remove" /\ editors["e2"].h = HostA
    /\ \E i \in 1..Len(pushLog[1].cfg.ingress) : pushLog[1].cfg.ingress[i].hostname = HostB
    /\ \A i \in 1..Len(remote.ingress) : remote.ingress[i].hostname # HostB


\* the id the successful add that took cfg to next gave its rule
AssignedId(cfg, next) == next.ingress[AddPlace(cfg.ingress)].id

\* the int value of id is above the value of every numeric id of ingress
AboveNumericIds(id, ingress) ==
    \A i \in 1..Len(ingress) :
        (ingress[i].id # <<>> /\ AtoiOk(ingress[i].id))
            => NumLess(AtoiVal(ingress[i].id), AtoiVal(id))

\* C15: the id a successful AddPublicHostname assigns is a number above
\* every numeric id of the fetched list, and, when the call before was a
\* successful add too, differs from and is above the id that call assigned.
C15_IdsIncrease ==
    (last.kind = "add" /\ last.err = "ok")
        => LET id == AssignedId(last.pre, remote)
           IN  /\ AtoiOk(id)
               /\ AboveNumericIds(id, last.pre.ingress)
               /\ prev.kind = "add" =>
                    /\ id # AssignedId(prev.pre, last.pre)
                    /\ NumLess(AtoiVal(AssignedId(prev.pre, last.pre)), AtoiVal(id))


\* indices of the rules of hostname whose stored path is empty or "*"
WildcardRules(ingress, hostname) ==
    {i \in 1..Len(ingress) :
        ingress[i].hostname = hostname /\ ingress[i].path \in {"", "*"}}

\* C16: RemovePublicHostname(h, "") and RemovePublicHostname(h, "*") do the
\* same on every config: either removes the first rule of hostname h whose
\* stored path is empty or "*", and fails with not-found exactly when there
\* is no such rule.
C16_RemoveWildcardPaths ==
    (last.kind = "remove" /\ last.p \in {"", "*"} /\ last.err \in {"ok", "notfound"})
        => LET m == WildcardRules(last.pre.ingress, last.h)
           IN  /\ last.err = "notfound" <=> m = {}
               /\ m # {} => remote.ingress = RemoveAt(last.pre.ingress, Min(m))
               /\ m = {} => remote = last.pre
               /\ RemoveEdit(last.pre, last.h, "") = RemoveEdit(last.pre, last.h, "*")

\* a removal with the empty path that removed a rule stored with path "*"
C16_Witness ==
    /\ last.kind = "remove" /\ last.p = "" /\ last.err = "ok" /\ last.h = HostA
    /\ last.pre.ingress[1].hostname = HostA
    /\ last.pre.ingress[1].path = "*"
    /\ remote.ingress = Tail(last.pre.ingress)

\* the successful update took the fetched list to the remote one by
\* rewriting the first rule of hostname last.h, and that rule alone, with
\* the given service
UpdatedInPlace(service) ==
    LET ing == last.pre.ingress
        cur == remote.ingress
        i == Min(UpdateMatches(ing, last.h))
    IN  /\ Len(cur) = Len(ing)
        /\ \A j \in 1..Len(ing) : j # i => cur[j] = ing[j]
        /\ cur[i].id = ing[i].id
        /\ cur[i].originRequest = ing[i].originRequest
        /\ cur[i].hostname = last.nh
        /\ cur[i].service = service
        /\ cur[i].path = IF last.p \in {"", "*"} THEN "" ELSE last.p

\* C17, as claimed: a successful UpdatePublicHostname(orig, new, path,
\* service) rewrites exactly the first rule of hostname orig: same position
\* and id, hostname new, the given service, stored path "" for "" and "*"
\* and path otherwise, every other rule and the length unchanged; and
\* GetPublicHostnames then lists new with the given service.
C17_UpdateInPlace_Claimed ==
    (last.kind = "update" /\ last.err = "ok")
        => /\ UpdatedInPlace(last.s)
           /\ Listed(remote.ingress, last.nh, last.s)

\* C17, amended: the service written is the given one, or
\* http://localhost:8080 when it is empty; GetPublicHostnames lists new with
\* that service when new is not empty, and lists no rule without hostname.
C17_UpdateInPlace ==
    (last.kind = "update" /\ last.err = "ok")
        => LET service == IF last.s = "" THEN DefaultService ELSE last.s
           IN  /\ UpdatedInPlace(service)
               /\ last.nh # "" => Listed(remote.ingress, last.nh, service)
               /\ \A i \in 1..Len(PublicHostnames(remote.ingress)) :
                    PublicHostnames(remote.ingress)[i].hostname # ""

\* an update of the second of three rules, with the empty service and a
\* path that replaces the stored one
C17_Witness ==
    /\ last.kind = "update" /\ last.err = "ok"
    /\ last.h = HostB /\ last.nh = HostB /\ last.s = "" /\ last.p = "/api"
    /\ Len(last.pre.ingress) = 3
    /\ last.pre.ingress[2].hostname = HostB
    /\ last.pre.ingress[2].path = ""
    /\ remote.ingress[2].path = "/api"
    /\ remote.ingress[2].service = DefaultService


\* C18: after RemovePublicHostname(h, p) has returned success, the remote
\* config holds no rule of hostname h and normalized path p, and
\* GetPublicHostnames lists none.
C18_RemovedIsGone ==
    (last.kind = "remove" /\ last.err = "ok")
        => /\ ~Present(remote.ingress, last.h, last.p)
           /\ ~Present(PublicHostnames(remote.ingress), last.h, last.p)

\* the call names a rule the fetched config does not hold
NamesNoRule ==
    \/ last.kind = "update" /\ UpdateMatches(last.pre.ingress, last.h) = {}
    \/ last.kind = "remove" /\ ~Present(last.pre.ingress, last.h, last.p)

\* C19: UpdatePublicHostname with an original hostname that no rule has,
\* and RemovePublicHostname with a (hostname, path) that no rule has,
\* return an error, issue no Push and leave the remote config as it was.
C19_NotFoundNoPush ==
    NamesNoRule
        => /\ last.err \in {"notfound", "fetch"}
           /\ last.pushed = <<>>
           /\ remote = last.pre

\* a removal that fails although the config holds the hostname, with
\* another path
C19_Witness ==
    /\ last.kind = "remove" /\ last.err = "notfound"
    /\ last.h = HostA /\ last.p = "/api"
    /\ \E i \in 1..Len(last.pre.ingress) : last.pre.ingress[i].hostname = HostA
    /\ remote = last.pre
    /\ last.pushed = <<>>


(***************************************************************************)
(* Properties of the tunnel status query.                                  *)
(***************************************************************************)
\* C20: CloudflareClient.GetTunnelStatus returns Unknown with an error
\* exactly when the tunnel info could not be fetched; otherwise it returns
\* no error, Active iff some connection is not pending reconnect, and
\* Inactive in all other cases (no connection, or all pending).  A fetch
\* failure is never reported as Inactive.
C20_ClientTunnelStatus ==
    statusRet # NoStatus =>
        LET live == \E i \in 1..Len(statusRet.conns) : ~statusRet.conns[i]
        IN  /\ (statusRet.status = StatusUnknown /\ statusRet.err) <=> ~statusRet.infoOk
            /\ statusRet.infoOk =>
                 /\ ~statusRet.err
                 /\ statusRet.status = StatusActive <=> live
                 /\ statusRet.status = StatusInactive <=> ~live
            /\ ~statusRet.infoOk => statusRet.status # StatusInactive

\* a tunnel whose first connection is pending reconnect and whose second
\* is not: Active
C20_Witness ==
    /\ statusRet # NoStatus
    /\ statusRet.infoOk
    /\ statusRet.conns = <<TRUE, FALSE>>
    /\ statusRet.status = StatusActive
    /\ ~statusRet.err


(***************************************************************************)
(* Further properties of the supervisor.                                   *)
(***************************************************************************)
\* C21: a step in which StartTunnel or StartTunnelWithURL returns the
\* spawn error leaves the registry as it was, creates no process and starts
\* no monitor.
C21_SpawnFailureNoEffect ==
    [][(ret'.op \in {"start", "starturl"} /\ ret'.err = "spawn")
          => (processes' = processes /\ mon' = mon /\ os' = os
              /\ ret'.after = ret'.before /\ ~ret'.spawned)]_vars

\* a failed spawn for a name whose entry holds a dead process: the entry
\* is still there
C21_Witness ==
    /\ ret.op \in {"start", "starturl"} /\ ret.err = "spawn"
    /\ ret.before # NoEntry
    /\ processes[ret.name] = ret.before
    /\ os[ret.before.pid].state = "reaped"


\* the names that have an entry in the registry
RegistryNames == {n \in Names : processes[n] # NoEntry}

\* C22: when StopTunnel returns, the registry holds the names it held
\* before the call, and the entry of a name that was stopped has status
\* Inactive for as long as it is in the registry.
C22_StopKeepsInactiveEntry ==
    /\ ret.op = "stop" =>
           RegistryNames = (IF ret.found THEN {ret.name} ELSE {}) \cup
                           (RegistryNames \ {ret.name})
    /\ \A n \in stopped :
           n \in RegistryNames => processes[n].status = StatusInactive


(***************************************************************************)
(* The DNS flows on their own: CreateTunnelDNSRecord and                   *)
(* DeleteTunnelDNSRecord called on a zone that already holds records.      *)
(***************************************************************************)
OtherTarget == "other.example.net"

\* the records a zone can hold before the calls
ZoneRecords ==
    {DNSRecord(HostA, "CNAME", TunnelTarget), DNSRecord(HostA, "CNAME", OtherTarget),
     DNSRecord(HostA, "A", "192.0.2.1"), DNSRecord(HostB, "CNAME", OtherTarget)}

\* where createDNSRecordAPI and deleteDNSRecordAPI can fail
CreateFaults == DNSFaults \ {"info"}
DeleteFaults == {"none", "noDomain", "zone", "list", "delete"}

DNSCall(kind, hostname, overwrite, fault, out) ==
    [kind |-> kind, h |-> hostname, overwrite |-> overwrite, fault |-> fault,
     dnsPre |-> dns, err |-> out.err]

FinishDNS(call, out) ==
    /\ dns' = out.dns
    /\ last' = call
    /\ calls' = calls + 1
    /\ UNCHANGED <<remote, prev, editors, pushLog>>
    /\ UNCHANGED <<procVars, statusVars, validateVars, orphan, tui>>

CreateTunnelDNSRecord ==
    /\ calls < MaxCalls
    /\ \E hostname \in Hostnames, overwrite \in BOOLEAN, fault \in CreateFaults :
          LET out == createDNSRecordAPI(dns, hostname, overwrite, fault)
          IN  FinishDNS(DNSCall("createDNS", hostname, overwrite, fault, out), out)

DeleteTunnelDNSRecord ==
    /\ calls < MaxCalls
    /\ \E hostname \in Hostnames, fault \in DeleteFaults :
          LET out == deleteDNSRecordAPI(dns, hostname, fault)
          IN  FinishDNS(DNSCall("deleteDNS", hostname, FALSE, fault, out), out)

NextDNS ==
    \/ CreateTunnelDNSRecord
    \/ DeleteTunnelDNSRecord

InitDNSSpec ==
    /\ InitProc
    /\ remote = Config(<<CatchAll>>, FALSE)
    /\ dns \in SUBSET ZoneRecords
    /\ last = NoCall
    /\ prev = NoCall
    /\ calls = 0
    /\ editors = [e \in Editors |-> NoEditor]
    /\ pushLog = <<>>
    /\ conns = <<>>
    /\ statusRet = NoStatus
    /\ configFile = NoConfigFile
    /\ validateRet = NoValidate
    /\ orphan = NoOrphan
    /\ tui = NewModel

SpecDNS == InitDNSSpec /\ [][NextDNS]_vars

\* the CNAME records of a name
CNAMEs(d, name) == {r \in d : r.name = name /\ r.type = "CNAME"}

\* C23: createDNSRecordAPI on a hostname that has a CNAME record: without
\* overwrite it returns an error and the zone is as it was; with overwrite
\* and no failing call it returns nil and the zone holds exactly one CNAME
\* record of the hostname, pointing at the tunnel target, and every record
\* of another name or type is as it was.
C23_CreateOnExisting ==
    (last.kind = "createDNS" /\ CNAMEs(last.dnsPre, last.h) # {}) =>
        /\ ~last.overwrite => (last.err # "ok" /\ dns = last.dnsPre)
        /\ (last.overwrite /\ last.fault = "none") =>
              /\ last.err = "ok"
              /\ CNAMEs(dns, last.h) = {DNSRecord(last.h, "CNAME", TunnelTarget)}
              /\ dns \ CNAMEs(dns, last.h) = last.dnsPre \ CNAMEs(last.dnsPre, last.h)

\* an overwrite that replaced two CNAME records of the hostname, one of
\* them pointing elsewhere
C23_Witness ==
    /\ last.kind = "createDNS" /\ last.overwrite /\ last.err = "ok"
    /\ DNSRecord(last.h, "CNAME", OtherTarget) \in last.dnsPre
    /\ DNSRecord(last.h, "CNAME", TunnelTarget) \in last.dnsPre
    /\ DNSRecord(last.h, "A", "192.0.2.1") \in dns

\* C24: after deleteDNSRecordAPI returns nil the zone holds no record named
\* hostname; when the zone holds no record named hostname the call returns
\* an error and the zone is as it was.
C24_DeleteByName ==
    last.kind = "deleteDNS" =>
        /\ last.err = "ok" => {r \in dns : r.name = last.h} = {}
        /\ {r \in last.dnsPre : r.name = last.h} = {} =>
               (last.err # "ok" /\ dns = last.dnsPre)


(***************************************************************************)
(* DNS records against ingress rules.                                      *)
(***************************************************************************)
\* the hostnames of the rules that are not the catch-all
RuleHostnames(ingress) ==
    {ingress[i].hostname : i \in {j \in 1..Len(ingress) : ingress[j].hostname # ""}}

\* the correspondence of DNS record names and rule hostnames
RecordsMatchRules(cfg, d) == {r.name : r \in d} = RuleHostnames(cfg.ingress)

\* the last handler call named a rule by its hostname and every remote
\* call it made succeeded
LastCallSucceeded ==
    /\ last.kind \in {"add", "update", "remove"}
    /\ last.h # ""
    /\ last.err = "ok"
    /\ last.dnsErr \in {"none", "ok"}

\* the handler calls so far started from a remote list with the catch-all
\* only and an empty zone, and every remote call of each of them succeeded
AllCallsSucceeded ==
    \/ calls = 1 /\ LastCallSucceeded /\ last.pre.ingress = <<CatchAll>>
    \/ /\ calls = 2 /\ LastCallSucceeded
       /\ prev.kind = "add" /\ prev.pre.ingress = <<CatchAll>>
       /\ last.dnsPre = {DNSRecord(prev.h, "CNAME", TunnelTarget)}

\* C25: after handler calls whose remote calls all succeeded, the names of
\* the DNS records are the hostnames of the rules that are not the
\* catch-all.
C25_RecordsMatchRules ==
    AllCallsSucceeded => RecordsMatchRules(remote, dns)


(***************************************************************************)
(* ValidateTunnelConfig on the config files of cloudflared.                *)
(***************************************************************************)
MaxRules == 3

\* an IngressRule of a config file
FileRule(hostname, service) == [hostname |-> hostname, service |-> service]

\* the ingress lists of at most MaxRules rules
RuleLists ==
    UNION {[1..n -> {FileRule(h, s) : h \in {"", HostA}, s \in Services}] :
              n \in 0..MaxRules}

\* the TunnelConfigFile values handed to ValidateTunnelConfig
ConfigFileInputs ==
    {[tunnelID |-> id, ingress |-> l] : id \in {"", TunnelID}, l \in RuleLists}

\* the first of the rules, given by their positions, that the loop of
\* ValidateTunnelConfig rejects; 0 when it rejects none
FirstBadRule(bad) ==
    IF bad = {} THEN 0 ELSE CHOOSE i \in bad : \A j \in bad : i <= j

NoService(ingress, i) == ingress[i].service = ""
NoHostname(ingress, i) == i < Len(ingress) /\ ingress[i].hostname = ""
BadRule(ingress, i) == NoService(ingress, i) \/ NoHostname(ingress, i)

\* ValidateTunnelConfig without the hostname check of the rules before the
\* last
ValidateTunnelConfigLastOnly(config) ==
    LET ingress == config.ingress
        bad == FirstBadRule({i \in 1..Len(ingress) : NoService(ingress, i)})
    IN  IF config.tunnelID = "" THEN "tunnelID"
        ELSE IF Len(ingress) = 0 THEN "empty"
        ELSE IF ingress[Len(ingress)].hostname # "" THEN "catchall"
        ELSE IF bad # 0 THEN "service"
        ELSE "ok"

\* ValidateTunnelConfig: the error it returns, "ok" for nil
ValidateTunnelConfig(config) ==
    LET ingress == config.ingress
        bad == FirstBadRule({i \in 1..Len(ingress) : BadRule(ingress, i)})
    IN  IF config.tunnelID = "" THEN "tunnelID"
        ELSE IF Len(ingress) = 0 THEN "empty"
        ELSE IF ingress[Len(ingress)].hostname # "" THEN "catchall"
        ELSE IF bad # 0
        THEN (IF NoService(ingress, bad) THEN "service" ELSE "hostname")
        ELSE "ok"

Validate ==
    /\ validateRet' = [err |-> ValidateTunnelConfig(configFile), config |-> configFile]
    /\ UNCHANGED configFile
    /\ UNCHANGED <<ingressVars, procVars, statusVars, orphan, tui>>

NextValidate == Validate

InitValidateSpec ==
    /\ InitProc
    /\ remote = Config(<<CatchAll>>, FALSE)
    /\ dns = {}
    /\ last = NoCall
    /\ prev = NoCall
    /\ calls = 0
    /\ editors = [e \in Editors |-> NoEditor]
    /\ pushLog = <<>>
    /\ conns = <<>>
    /\ statusRet = NoStatus
    /\ configFile \in ConfigFileInputs
    /\ validateRet = NoValidate
    /\ orphan = NoOrphan
    /\ tui = NewModel

SpecValidate == InitValidateSpec /\ [][NextValidate]_vars

\* the rules of a list that have no hostname
EmptyHostnameRules(ingress) == {i \in 1..Len(ingress) : ingress[i].hostname = ""}

\* C26: ValidateTunnelConfig returns nil exactly for the configs with a
\* tunnel id, a non-empty rule list, exactly one rule without hostname, that
\* rule being the last, and a service in every rule; it returns an error
\* for every other config.
C26_ValidateTunnelConfig ==
    validateRet.err # "none" =>
        LET ingress == validateRet.config.ingress
        IN  validateRet.err = "ok" <=>
                /\ validateRet.config.tunnelID # ""
                /\ Len(ingress) > 0
                /\ EmptyHostnameRules(ingress) = {Len(ingress)}
                /\ \A i \in 1..Len(ingress) : ingress[i].service # ""

\* a config rejected only because a rule before the last has no hostname
C26_Witness ==
    /\ validateRet.err = "hostname"
    /\ Len(validateRet.config.ingress) = 3
    /\ validateRet.config.ingress[2].hostname = ""
    /\ validateRet.config.ingress[1].hostname # ""


\* C29: an operation that holds the read lock only leaves every registry
\* entry, its status included, as it found it.
C29_NoWriteUnderReadLock ==
    (ret.op = "status" /\ ret.lock = "read") => ret.after = ret.before


\* C28: the step in which the monitor of a process records its status
\* changes no entry but the one that holds that process.
C28_MonitorWritesOwnEntry ==
    [][\A p \in Pids :
          (mon[p].pc = "lock" /\ mon'[p].pc = "done") =>
              \A n \in Names : processes'[n] # processes[n] => processes[n].pid = p]_vars


(***************************************************************************)
(* The supervisor with its goroutines scheduled: a goroutine that can take *)
(* its next step takes it.  The select of stopProcess ends, by the exit or *)
(* by the timer; a Wait returns once the process has exited; a goroutine   *)
(* that asks for the lock gets it if the lock is free again and again; a   *)
(* cancelled context kills its running command.  Nothing obliges a caller  *)
(* to call, or a process to exit.                                          *)
(***************************************************************************)
FairProc ==
    /\ \A t \in Tasks : WF_vars(StopDone(t) \/ StopTimeout(t))
    /\ \A t \in Tasks : SF_vars(pc[t] = "restart.start" /\ StartTunnel(t))
    /\ \A p \in Pids : WF_vars(MonitorWait(p))
    /\ \A p \in Pids : SF_vars(MonitorRecord(p))
    /\ \A p \in Pids : WF_vars(LeftoverWait(p))
    /\ \A p \in Pids : WF_vars(ContextKill(p))

FairSpecProc == InitProcSpec /\ [][NextProc]_vars /\ FairProc

\* C27: a task that holds the registry lock releases it in the end.
C27_LockReleased ==
    \A t \in Tasks : (writer = t) ~> (writer = "none")

\* process p has exited with no stop of it under way and no cancellation
ExitedOnItsOwn(p) ==
    /\ os[p].state = "exited"
    /\ os[p].exit \in {"clean", "abnormal"}
    /\ \A t \in Tasks : op[t].pid # p

\* C30: once a process has exited on its own, its monitor gets the lock and
\* records the status in the end: Error after an abnormal exit, Inactive
\* after a clean one.
C30_MonitorRecords ==
    \A p \in Pids :
        (mon[p].pc = "wait" /\ ExitedOnItsOwn(p)) ~>
            (mon[p].pc = "done" /\ mon[p].err = (os[p].exit = "abnormal"))


\* the return values of stopProcess, through StopTunnel or RestartTunnel
StopOps == {"stop", "restart", "restart.stop"}

OneInserted(a, b) ==
    /\ Len(b) = Len(a) + 1
    /\ \E k \in 1..Len(b) : RemoveAt(b, k) = a

\* list b is list a with at most one rule rewritten, that rule keeping its
\* id and its originRequest
OneModified(a, b) ==
    /\ Len(b) = Len(a)
    /\ \E k \in 1..Len(a) :
          /\ \A j \in 1..Len(a) : j # k => b[j] = a[j]
          /\ b[k].id = a[k].id
          /\ b[k].originRequest = a[k].originRequest

\* C32: a handler that pushes has fetched once before, and the list it
\* pushes is the fetched one with one rule inserted (add), rewritten (update)
\* or removed (remove); the other rules, their order and the warp-routing
\* flag are the fetched ones, in the pushed config and in the config the
\* remote then holds.
C32_PushIsFetchedPlusOneEdit ==
    (last.kind \in {"add", "update", "remove"} /\ last.pushed # <<>>) =>
        LET fetched == last.pre
            pushed == last.pushed[1]
        IN  /\ last.fetches = 1
            /\ Len(last.pushed) = 1
            /\ pushed.warp = fetched.warp
            /\ last.kind = "add" => OneInserted(fetched.ingress, pushed.ingress)
            /\ last.kind = "update" => OneModified(fetched.ingress, pushed.ingress)
            /\ last.kind = "remove" => OneInserted(pushed.ingress, fetched.ingress)
            /\ last.err = "ok" =>
                  /\ remote.warp = fetched.warp
                  /\ Len(remote.ingress) = Len(pushed.ingress)
                  /\ \A i \in 1..Len(pushed.ingress) :
                        pushed.ingress[i].originRequest # "empty" =>
                            remote.ingress[i] = pushed.ingress[i]

\* a removal of the first of three rules of a config with warp routing on:
\* the second rule, with its originRequest, is now the first
C32_Witness ==
    /\ last.kind = "remove" /\ last.err = "ok"
    /\ last.pre.warp /\ remote.warp
    /\ Len(last.pre.ingress) = 3
    /\ last.pre.ingress[2].originRequest = "set"
    /\ remote.ingress[1] = last.pre.ingress[2]


\* C33: AddPublicHostname issues its DNS call only after a Push that
\* succeeded: a call that ends at the Fetch, at the duplicate check or at
\* the Push issues no DNS call and leaves the zone as it was.
C33_DNSOnlyAfterPush ==
    last.kind = "add" =>
        /\ last.err \in {"fetch", "conflict", "push"} =>
              (last.dnsOps = <<>> /\ last.dnsErr = "none" /\ dns = last.dnsPre)
        /\ (last.dnsOps # <<>> \/ dns # last.dnsPre) =>
              (Len(last.pushed) = 1 /\ remote = WireConfig(last.pushed[1]))

\* a second add whose Push failed: the zone holds the record of the first
\* add only
C33_Witness ==
    /\ last.kind = "add" /\ last.err = "push" /\ last.h = HostB
    /\ last.pushed # <<>>
    /\ dns = {DNSRecord(HostA, "CNAME", TunnelTarget)}
    /\ remote = last.pre


\* C34: every handler call issues one Fetch and at most one Push; a call
\* whose Fetch fails returns the error of the Fetch, issues no Push and no
\* DNS call, and leaves the remote config and the zone as they were.
C34_FetchErrorStops ==
    last.kind \in {"add", "update", "remove"} =>
        /\ last.fetches = 1
        /\ Len(last.pushed) <= 1
        /\ last.err = "fetch" =>
              /\ last.pushed = <<>>
              /\ last.dnsOps = <<>>
              /\ remote = last.pre
              /\ dns = last.dnsPre

\* an update of a rule that the config holds, stopped by the failed Fetch
C34_Witness ==
    /\ last.kind = "update" /\ last.err = "fetch"
    /\ UpdateMatches(last.pre.ingress, last.h) # {}
    /\ last.nh # last.h
    /\ remote = last.pre


(***************************************************************************)
(* KillOrphanedProcesses next to Start and Stop.  pgrep lists running      *)
(* cloudflared processes: processes of the registry and one that this      *)
(* manager did not spawn.                                                  *)
(***************************************************************************)
ForeignPid == MaxProcs + 1

\* a lookup among the entries marked Active only: what KillOrphanedProcesses
\* would find if it skipped the entries of stopped tunnels
GetProcessByPIDActive(registry, pid) ==
    {n \in DOMAIN registry :
        registry[n] # NoEntry /\ registry[n].pid = pid
            /\ registry[n].status = StatusActive}

\* GetProcessByPID: the names whose entry holds the pid (empty for nil)
GetProcessByPID(registry, pid) ==
    {n \in DOMAIN registry : registry[n] # NoEntry /\ registry[n].pid = pid}

\* the end of the loop step for one pid: the next line, or return nil
OrphanStep(todo, sent) ==
    orphan' = [pc |-> IF todo = {} THEN "idle" ELSE "check", todo |-> todo,
               pid |-> 0, sent |-> sent,
               ret |-> IF todo = {} THEN "nil" ELSE "none"]

\* KillOrphanedProcesses: pgrep; an error, also that of no match, returns nil
KillOrphanedProcesses ==
    /\ orphan.pc = "idle"
    /\ \E ok \in BOOLEAN,
          lines \in SUBSET ({p \in Pids : os[p].state = "running"} \cup {ForeignPid}) :
            OrphanStep(IF ok THEN lines ELSE {}, {})
    /\ UNCHANGED <<ingressVars, procVars, statusVars, validateVars, tui>>

\* the loop body for one line: GetProcessByPID under the read lock
OrphanCheck ==
    /\ orphan.pc = "check"
    /\ writer = "none"
    /\ \E pid \in orphan.todo :
          IF GetProcessByPID(processes, pid) # {}
          THEN OrphanStep(orphan.todo \ {pid}, orphan.sent)
          ELSE orphan' = [orphan EXCEPT !.pc = "signal", !.pid = pid,
                                        !.todo = @ \ {pid},
                                        !.sent = @ \cup {[pid |-> pid, registry |-> processes,
                                                          signalled |-> FALSE]}]
    /\ UNCHANGED <<ingressVars, procVars, statusVars, validateVars, tui>>

\* FindProcess and Signal(SIGTERM), after the lock was released; an error
\* of either is dropped
OrphanSignal ==
    /\ orphan.pc = "signal"
    /\ OrphanStep(orphan.todo,
                  {IF s.pid = orphan.pid THEN [s EXCEPT !.signalled = TRUE] ELSE s :
                      s \in orphan.sent})
    /\ UNCHANGED <<ingressVars, procVars, statusVars, validateVars, tui>>

NextOrphan ==
    \/ \E t \in Tasks : StartTunnel(t)
    \/ \E t \in Tasks : StopTunnel(t)
    \/ \E t \in Tasks : StopDone(t)
    \/ \E t \in Tasks : StopTimeout(t)
    \/ \E p \in Pids : ProcExit(p)
    \/ KillOrphanedProcesses
    \/ OrphanCheck
    \/ OrphanSignal

SpecOrphan == InitProcSpec /\ [][NextOrphan]_vars

\* C35: a step of KillOrphanedProcesses leaves the registry as it is; every
\* pid it signals was the pid of no entry of the registry when it was
\* checked; and the call returns nil whatever pgrep and the signals did.
C35_OrphansOnly ==
    [][orphan' # orphan =>
          /\ processes' = processes
          /\ \A s \in orphan'.sent : \A n \in Names : s.registry[n].pid # s.pid
          /\ orphan'.pc = "idle" => orphan'.ret = "nil"]_vars

\* a call that signalled the foreign process and no process of the
\* registry, while a Start went on between its check and its signal
C35_Witness ==
    /\ orphan.pc = "idle" /\ orphan.ret = "nil"
    /\ \E s \in orphan.sent :
          /\ s.pid = ForeignPid /\ s.signalled
          /\ s.registry # processes
    /\ \E n \in Names : processes[n] # NoEntry /\ os[processes[n].pid].state = "running"
    /\ \A s \in orphan.sent : s.pid = ForeignPid


(***************************************************************************)
(* StopAllTunnels on a registry of two tunnels.                            *)
(***************************************************************************)
StopAllNames == {"web", "api"}
PidOf(n) == IF n = "web" THEN 1 ELSE 2

\* what a tunnel of the registry can be when StopAllTunnels is called:
\* not registered, running, exited and not yet collected, or collected by
\* its monitor, which has recorded the status
TunnelStates == {"none", "running", "exited", "reaped"}

InitStopAllSpec ==
    /\ \E st \in [StopAllNames -> TunnelStates] :
          /\ processes = [n \in StopAllNames |->
                IF st[n] = "none" THEN NoEntry
                ELSE Entry(PidOf(n),
                           IF st[n] = "reaped" THEN StatusInactive ELSE StatusActive,
                           "nil")]
          /\ os = [p \in Pids |->
                IF \A n \in StopAllNames : PidOf(n) = p => st[n] = "none" THEN NoProc
                ELSE LET n == CHOOSE m \in StopAllNames : PidOf(m) = p
                     IN  [state |-> st[n],
                          exit |-> IF st[n] = "running" THEN "" ELSE "clean",
                          ctx |-> "background"]]
          /\ mon = [p \in Pids |->
                IF \A n \in StopAllNames : PidOf(n) = p => st[n] = "none" THEN NoMon
                ELSE LET n == CHOOSE m \in StopAllNames : PidOf(m) = p
                     IN  [err |-> FALSE, name |-> n,
                          pc |-> IF st[n] = "reaped" THEN "done" ELSE "wait"]]
    /\ writer = "none"
    /\ pc = [t \in Tasks |-> "idle"]
    /\ op = [t \in Tasks |-> NoOp]
    /\ ret = NoRet
    /\ cancelled = {}
    /\ waiters = [p \in Pids |-> FALSE]
    /\ started = {}
    /\ stopped = {}
    /\ remote = Config(<<CatchAll>>, FALSE)
    /\ dns = {}
    /\ last = NoCall
    /\ prev = NoCall
    /\ calls = 0
    /\ editors = [e \in Editors |-> NoEditor]
    /\ pushLog = <<>>
    /\ conns = <<>>
    /\ statusRet = NoStatus
    /\ configFile = NoConfigFile
    /\ validateRet = NoValidate
    /\ orphan = NoOrphan
    /\ tui = NewModel

\* StopAllTunnels: the write lock, held until it returns
StopAllTunnels(t) ==
    /\ pc[t] = "idle"
    /\ writer = "none"
    /\ writer' = t
    /\ pc' = [pc EXCEPT ![t] = "stopall.next"]
    /\ op' = [op EXCEPT ![t] =
                [name |-> "", pid |-> 0, config |-> "nil",
                 todo |-> {n \in DOMAIN processes : processes[n] # NoEntry},
                 attempted |-> <<>>, failed |-> {}, before |-> processes]]
    /\ ret' = NoRet
    /\ UNCHANGED <<processes, os, mon, cancelled, waiters, started, stopped>>
    /\ UNCHANGED <<ingressVars, statusVars, validateVars, orphan, tui>>

\* a loop that ends at the first failed stop: what StopAllTunnels would do
\* if it returned the first error
StopAllTodoFailFast(t) == IF op[t].failed # {} THEN {} ELSE op[t].todo

\* the names the loop of StopAllTunnels goes on with
StopAllTodo(t) == op[t].todo

\* the loop of StopAllTunnels: the next entry, in the order the map gives,
\* and the SIGTERM of its stopProcess; after the last entry the registry is
\* replaced by an empty map and the collected errors are returned
StopAllNext(t) ==
    /\ pc[t] = "stopall.next"
    /\ IF StopAllTodo(t) = {}
       THEN /\ processes' = [n \in DOMAIN processes |-> NoEntry]
            /\ ret' = [task |-> t, op |-> "stopall",
                       err |-> IF op[t].failed # {} THEN "errors" ELSE "nil",
                       attempted |-> op[t].attempted, failed |-> op[t].failed,
                       before |-> op[t].before]
            /\ writer' = "none"
            /\ pc' = [pc EXCEPT ![t] = "idle"]
            /\ op' = [op EXCEPT ![t] = NoOp]
       ELSE /\ \E name \in StopAllTodo(t) :
                 LET e == processes[name]
                     next == [op[t] EXCEPT !.todo = @ \ {name},
                                           !.attempted = Append(@, name)]
                 IN  IF ~SignalOk(e.pid)
                     THEN /\ op' = [op EXCEPT ![t] = [next EXCEPT !.failed = @ \cup {name}]]
                          /\ UNCHANGED pc
                     ELSE /\ op' = [op EXCEPT ![t] = [next EXCEPT !.name = name, !.pid = e.pid]]
                          /\ pc' = [pc EXCEPT ![t] = "stopall.select"]
            /\ ret' = NoRet
            /\ UNCHANGED <<processes, writer>>
    /\ UNCHANGED <<os, mon, cancelled, waiters, started, stopped>>
    /\ UNCHANGED <<ingressVars, statusVars, validateVars, orphan, tui>>

\* how the stopProcess of one entry ends for StopAllTunnels
StopAllEnd(t, err, set) ==
    /\ processes' = [processes EXCEPT ![op[t].name] = StopProcessEnd(op[t].name, err, set)]
    /\ op' = [op EXCEPT ![t].failed = IF err = "ok" THEN @ ELSE @ \cup {op[t].name},
                        ![t].name = "", ![t].pid = 0]
    /\ pc' = [pc EXCEPT ![t] = "stopall.next"]
    /\ ret' = NoRet
    /\ UNCHANGED <<mon, writer, cancelled, started, stopped>>
    /\ UNCHANGED <<ingressVars, statusVars, validateVars, orphan, tui>>

\* stopProcess within StopAllTunnels, case err := <-done
StopAllDone(t) ==
    /\ pc[t] = "stopall.select"
    /\ os[op[t].pid].state \in {"exited", "reaped"}
    /\ os' = [os EXCEPT ![op[t].pid].state = "reaped"]
    /\ StopAllEnd(t, IF os[op[t].pid].state = "reaped" THEN "wait" ELSE "ok", TRUE)
    /\ UNCHANGED waiters

\* stopProcess within StopAllTunnels, case <-time.After
StopAllTimeout(t) ==
    /\ pc[t] = "stopall.select"
    /\ LET pid == op[t].pid
       IN  \E collected \in (IF os[pid].state = "exited" THEN BOOLEAN ELSE {FALSE}) :
             IF os[pid].state = "reaped" \/ collected
             THEN /\ os' = [os EXCEPT ![pid].state = "reaped"]
                  /\ StopAllEnd(t, "kill", FALSE)
                  /\ UNCHANGED waiters
             ELSE /\ os' = [os EXCEPT ![pid] =
                              IF @.state = "running"
                              THEN [@ EXCEPT !.state = "exited", !.exit = "killed"]
                              ELSE @]
                  /\ StopAllEnd(t, "ok", TRUE)
                  /\ waiters' = [waiters EXCEPT ![pid] = TRUE]

NextStopAll ==
    \/ \E t \in Tasks : StopAllTunnels(t)
    \/ \E t \in Tasks : StopAllNext(t)
    \/ \E t \in Tasks : StopAllDone(t)
    \/ \E t \in Tasks : StopAllTimeout(t)
    \/ \E p \in Pids : MonitorWait(p)
    \/ \E p \in Pids : MonitorRecord(p)
    \/ \E p \in Pids : ProcExit(p)

SpecStopAll == InitStopAllSpec /\ [][NextStopAll]_vars

\* C36: when StopAllTunnels returns, the registry is empty; it has called
\* stopProcess once for every entry the registry held, also after a failed
\* one; and it returns an error exactly when one of the calls failed.
C36_StopAllTunnels ==
    ret.op = "stopall" =>
        /\ \A n \in DOMAIN processes : processes[n] = NoEntry
        /\ {ret.attempted[i] : i \in 1..Len(ret.attempted)} =
               {n \in DOMAIN ret.before : ret.before[n] # NoEntry}
        /\ Len(ret.attempted) = Cardinality({n \in DOMAIN ret.before : ret.before[n] # NoEntry})
        /\ ret.failed \subseteq {ret.attempted[i] : i \in 1..Len(ret.attempted)}
        /\ (ret.err # "nil") <=> (ret.failed # {})

\* a call whose first stop failed and whose second stop killed a running
\* process
C36_Witness ==
    /\ ret.op = "stopall" /\ ret.err = "errors"
    /\ Len(ret.attempted) = 2
    /\ ret.failed = {ret.attempted[1]}
    /\ os[PidOf(ret.attempted[2])].exit = "killed"
    /\ \A n \in DOMAIN processes : processes[n] = NoEntry


\* C37: when createDNSRecordAPI returns an error, the records of the
\* hostname are the ones the zone held before the call.
C37_CreateErrorKeepsRecords ==
    (last.kind = "createDNS" /\ last.err # "ok" /\ last.h # "") =>
        {r \in dns : r.name = last.h} = {r \in last.dnsPre : r.name = last.h}


(***************************************************************************)
(* The helpers that build and edit a config file of cloudflared:           *)
(* CreateDefaultConfig, CreateWebServiceConfig, AddIngressRule and         *)
(* RemoveIngressRule.  Each call is followed by ValidateTunnelConfig on    *)
(* the config it leaves, and validateRet keeps the arguments, the verdict  *)
(* on the config before the call and the verdict on the config after it.   *)
(***************************************************************************)
FileCatchAll == FileRule("", "http_status:404")

FileHostnames == {"", HostA, HostB}
TunnelIDs == {"", TunnelID}

CreateDefaultConfig(tunnelID, tunnelName) ==
    [tunnelID |-> tunnelID, ingress |-> <<FileCatchAll>>]

CreateWebServiceConfig(tunnelID, hostname, serviceURL) ==
    [tunnelID |-> tunnelID,
     ingress |-> <<FileRule(hostname, serviceURL), FileCatchAll>>]

\* AddIngressRule that appends the rule after the last one
AddIngressRuleAtEnd(config, hostname, service) ==
    [config EXCEPT !.ingress = Append(@, FileRule(hostname, service))]

\* AddIngressRule: the new rule goes before the last rule of the list
AddIngressRule(config, hostname, service) ==
    LET newRule == FileRule(hostname, service)
        n == Len(config.ingress)
    IN  IF n = 0
        THEN [config EXCEPT !.ingress = <<newRule>>]
        ELSE [config EXCEPT !.ingress =
                  SubSeq(@, 1, n - 1) \o <<newRule, config.ingress[n]>>]

\* the rules of a config whose hostname is the given one
RulesOf(config, hostname) ==
    {i \in 1..Len(config.ingress) : config.ingress[i].hostname = hostname}

\* RemoveIngressRule: the first rule of the hostname is cut out; the bool
\* it returns is found
RemoveIngressRule(config, hostname) ==
    LET hits == RulesOf(config, hostname)
    IN  IF hits = {}
        THEN [found |-> FALSE, config |-> config]
        ELSE [found |-> TRUE,
              config |-> [config EXCEPT !.ingress =
                             RemoveAt(@, CHOOSE i \in hits : \A j \in hits : i <= j)]]

HelperRet(fn, pre, config, tunnelID, hostname, service, found) ==
    [fn |-> fn, pre |-> pre, err |-> ValidateTunnelConfig(config),
     config |-> config, tunnelID |-> tunnelID, hostname |-> hostname,
     service |-> service, found |-> found]

\* the call has left configFile'; ValidateTunnelConfig runs on it
FinishHelper(fn, pre, tunnelID, hostname, service, found) ==
    /\ validateRet' = HelperRet(fn, pre, configFile', tunnelID, hostname,
                                service, found)
    /\ UNCHANGED <<ingressVars, procVars, statusVars, orphan, tui>>

CallCreateDefaultConfig ==
    \E id \in TunnelIDs, name \in Names :
        /\ configFile' = CreateDefaultConfig(id, name)
        /\ FinishHelper("CreateDefaultConfig", "none", id, "", "", FALSE)

CallCreateWebServiceConfig ==
    \E id \in TunnelIDs, h \in FileHostnames, s \in Services :
        /\ configFile' = CreateWebServiceConfig(id, h, s)
        /\ FinishHelper("CreateWebServiceConfig", "none", id, h, s, FALSE)

CallAddIngressRule ==
    /\ Len(configFile.ingress) <= MaxRules
    /\ \E h \in FileHostnames, s \in Services :
           /\ configFile' = AddIngressRule(configFile, h, s)
           /\ FinishHelper("AddIngressRule", ValidateTunnelConfig(configFile),
                           configFile.tunnelID, h, s, FALSE)

CallRemoveIngressRule ==
    \E h \in FileHostnames :
        /\ configFile' = RemoveIngressRule(configFile, h).config
        /\ FinishHelper("RemoveIngressRule", ValidateTunnelConfig(configFile),
                        configFile.tunnelID, h, "",
                        RemoveIngressRule(configFile, h).found)

NextConfigFile ==
    \/ CallCreateDefaultConfig
    \/ CallCreateWebServiceConfig
    \/ CallAddIngressRule
    \/ CallRemoveIngressRule

SpecConfigFile == InitValidateSpec /\ [][NextConfigFile]_vars

\* C38: CreateDefaultConfig and CreateWebServiceConfig called with a tunnel
\* id, hostname and service that are not empty return a config that
\* ValidateTunnelConfig accepts, and AddIngressRule (hostname and service
\* not empty) and RemoveIngressRule (hostname not empty) applied to a config
\* that ValidateTunnelConfig accepts leave a config that it accepts.
C38_HelpersKeepValid ==
    /\ (validateRet.err # "none" /\ validateRet.fn = "CreateDefaultConfig"
            /\ validateRet.tunnelID # "")
           => validateRet.err = "ok"
    /\ (validateRet.err # "none" /\ validateRet.fn = "CreateWebServiceConfig"
            /\ validateRet.tunnelID # "" /\ validateRet.hostname # ""
            /\ validateRet.service # "")
           => validateRet.err = "ok"
    /\ (validateRet.err # "none" /\ validateRet.fn = "AddIngressRule"
            /\ validateRet.pre = "ok" /\ validateRet.hostname # ""
            /\ validateRet.service # "")
           => validateRet.err = "ok"
    /\ (validateRet.err # "none" /\ validateRet.fn = "RemoveIngressRule"
            /\ validateRet.pre = "ok" /\ validateRet.hostname # "")
           => validateRet.err = "ok"

\* a rule was removed from an accepted config that held two rules of the
\* hostname and a rule of another hostname
C38_Witness ==
    /\ validateRet.err = "ok"
    /\ validateRet.fn = "RemoveIngressRule"
    /\ validateRet.pre = "ok"
    /\ validateRet.found
    /\ validateRet.hostname = HostA
    /\ RulesOf(configFile, HostA) # {}
    /\ RulesOf(configFile, HostB) # {}


(***************************************************************************)
(* The terminal user interface: Model.Update, one action for each message  *)
(* it handles.  The commands Update returns run on their own and deliver   *)
(* their message later; tui.cmds holds the ones under way.  What a load    *)
(* command delivers is the list the account holds at that moment, any      *)
(* list of at most MaxList entries.  An index expression whose index is    *)
(* not below the length of the list panics, which ends the program.        *)
(***************************************************************************)
MaxList == 2

TunnelIDsListed == {"t1", "t2"}

\* the lists of at most MaxList entries of S, no entry twice
ListsOf(S) ==
    {l \in UNION {[1..n -> S] : n \in 0..MaxList} :
        \A i, j \in 1..Len(l) : l[i] = l[j] => i = j}

\* the index expression list[i] of Go is in range
InRange(list, i) == i >= 0 /\ i < Len(list)

Show(m) ==
    /\ tui' = m
    /\ UNCHANGED <<ingressVars, procVars, statusVars, validateVars, orphan>>

\* a key message reaches the switch on the key
KeyHandled ==
    /\ ~tui.panic
    /\ ~tui.loading
    /\ ~(tui.showAddHostname \/ tui.showEditHostname)

\* a key message goes to handleFormInput
FormHandled ==
    /\ ~tui.panic
    /\ ~tui.loading
    /\ (tui.showAddHostname \/ tui.showEditHostname)

Panicked == [tui EXCEPT !.panic = TRUE]

WithCmd(m, c) == [m EXCEPT !.cmds = @ \cup {c}]

\* leaving the hostname view
ExitHostnames ==
    [tui EXCEPT !.showTunnelHostnames = FALSE, !.selectedTunnelID = "",
                !.tunnelHostnames = <<>>]

\* opening the hostname view of the selected tunnel
EnterHostnames ==
    IF InRange(tui.tunnelsList, tui.selectedTunnel)
    THEN WithCmd([tui EXCEPT !.selectedTunnelID = tui.tunnelsList[tui.selectedTunnel + 1],
                             !.showTunnelHostnames = TRUE, !.loading = TRUE],
                 "loadTunnelHostnames")
    ELSE Panicked

KeyHelp == KeyHandled /\ Show([tui EXCEPT !.showHelp = ~@])

KeyR == KeyHandled /\ Show(WithCmd([tui EXCEPT !.loading = TRUE], "loadTunnels"))

KeyUp ==
    /\ KeyHandled
    /\ Show(IF tui.showTunnelHostnames
            THEN (IF tui.selectedHostnameIndex > 0
                  THEN [tui EXCEPT !.selectedHostnameIndex = @ - 1] ELSE tui)
            ELSE IF tui.selectedTunnel > 0
            THEN [tui EXCEPT !.selectedTunnel = @ - 1]
            ELSE tui)

KeyDown ==
    /\ KeyHandled
    /\ Show(IF tui.showTunnelHostnames
            THEN (IF tui.selectedHostnameIndex < Len(tui.tunnelHostnames) - 1
                  THEN [tui EXCEPT !.selectedHostnameIndex = @ + 1] ELSE tui)
            ELSE IF tui.selectedTunnel < Len(tui.tunnelsList) - 1
            THEN [tui EXCEPT !.selectedTunnel = @ + 1]
            ELSE tui)

KeyD ==
    /\ KeyHandled
    /\ Show(IF tui.showTunnelHostnames /\ Len(tui.tunnelHostnames) > 0
            THEN (IF InRange(tui.tunnelHostnames, tui.selectedHostnameIndex)
                  THEN WithCmd([tui EXCEPT !.selectedHostname =
                                               tui.tunnelHostnames[tui.selectedHostnameIndex + 1],
                                           !.loading = TRUE],
                               "deleteTunnelHostname")
                  ELSE Panicked)
            ELSE IF ~tui.showTunnelHostnames /\ Len(tui.tunnelsList) > 0
            THEN (IF tui.selectedTunnel >= Len(tui.tunnelsList)
                  THEN tui
                  ELSE WithCmd(tui, "deleteTunnel"))
            ELSE tui)

KeySpace ==
    /\ KeyHandled
    /\ Show(IF tui.showTunnelHostnames THEN ExitHostnames
            ELSE IF Len(tui.tunnelsList) > 0 THEN EnterHostnames
            ELSE tui)

KeyEsc ==
    /\ KeyHandled
    /\ Show(IF tui.showHelp THEN [tui EXCEPT !.showHelp = FALSE]
            ELSE IF tui.showTunnelHostnames THEN ExitHostnames
            ELSE tui)

KeyA ==
    /\ KeyHandled
    /\ Show(IF tui.showTunnelHostnames
            THEN [tui EXCEPT !.showAddHostname = TRUE] ELSE tui)

KeyE ==
    /\ KeyHandled
    /\ Show(IF tui.showTunnelHostnames /\ Len(tui.tunnelHostnames) > 0
            THEN (IF InRange(tui.tunnelHostnames, tui.selectedHostnameIndex)
                  THEN [tui EXCEPT !.showEditHostname = TRUE,
                                   !.selectedHostname =
                                       tui.tunnelHostnames[tui.selectedHostnameIndex + 1]]
                  ELSE Panicked)
            ELSE tui)

KeyEnter ==
    /\ KeyHandled
    /\ Show(IF Len(tui.tunnelsList) > 0 /\ ~tui.showTunnelHostnames
            THEN EnterHostnames ELSE tui)

KeyO ==
    /\ KeyHandled
    /\ Show(IF tui.showTunnelHostnames /\ tui.selectedTunnelID # "" THEN tui
            ELSE IF Len(tui.tunnelsList) > 0
            THEN (IF InRange(tui.tunnelsList, tui.selectedTunnel) THEN tui ELSE Panicked)
            ELSE tui)

\* handleFormInput, esc: the form is cancelled
FormEsc ==
    /\ FormHandled
    /\ Show([tui EXCEPT !.showAddHostname = FALSE, !.showEditHostname = FALSE])

\* handleFormInput, enter on the last field with a hostname typed in
FormSubmit ==
    /\ FormHandled
    /\ Show(WithCmd([tui EXCEPT !.loading = TRUE, !.showAddHostname = FALSE,
                                !.showEditHostname = FALSE],
                    IF tui.showEditHostname THEN "updateTunnelHostname"
                    ELSE "createTunnelHostname"))

Tick == ~tui.panic /\ Show(WithCmd(tui, "loadTunnels"))

\* the command c delivers its message
Delivered(c) == [tui EXCEPT !.cmds = @ \ {c}, !.loading = FALSE]

TunnelsLoaded ==
    /\ ~tui.panic
    /\ "loadTunnels" \in tui.cmds
    /\ \E l \in ListsOf(TunnelIDsListed) :
           Show([Delivered("loadTunnels") EXCEPT !.tunnelsList = l])

TunnelHostnamesLoaded ==
    /\ ~tui.panic
    /\ "loadTunnelHostnames" \in tui.cmds
    /\ \E l \in ListsOf({HostA, HostB}) :
           Show([Delivered("loadTunnelHostnames") EXCEPT !.tunnelHostnames = l])

ErrorMsg ==
    /\ ~tui.panic
    /\ \E c \in tui.cmds : Show(Delivered(c))

HostnameCmds == {"createTunnelHostname", "updateTunnelHostname", "deleteTunnelHostname"}

\* statusMsg: a hostname command that succeeded has the list reloaded when
\* the hostname view is open; the message of deleteTunnel reloads nothing
StatusMsg ==
    /\ ~tui.panic
    /\ \E c \in tui.cmds \cap (HostnameCmds \cup {"deleteTunnel"}) :
           Show(IF c \in HostnameCmds /\ tui.showTunnelHostnames
                   /\ tui.selectedTunnelID # ""
                THEN WithCmd(Delivered(c), "loadTunnelHostnames")
                ELSE Delivered(c))

NextTUI ==
    \/ KeyHelp
    \/ KeyR
    \/ KeyUp
    \/ KeyDown
    \/ KeyD
    \/ KeySpace
    \/ KeyEsc
    \/ KeyA
    \/ KeyE
    \/ KeyEnter
    \/ KeyO
    \/ FormEsc
    \/ FormSubmit
    \/ Tick
    \/ TunnelsLoaded
    \/ TunnelHostnamesLoaded
    \/ ErrorMsg
    \/ StatusMsg

SpecTUI == InitProcSpec /\ [][NextTUI]_vars

\* C39: after any sequence of key presses and list-reload messages the
\* selected hostname index is below the length of the hostname list when
\* that list is not empty, and the selected tunnel index is below the
\* length of the tunnel list when that list is not empty; no index
\* expression of the key handlers goes out of range.
C39_SelectionInRange ==
    /\ Len(tui.tunnelHostnames) > 0 =>
           tui.selectedHostnameIndex < Len(tui.tunnelHostnames)
    /\ Len(tui.tunnelsList) > 0 =>
           tui.selectedTunnel < Len(tui.tunnelsList)
    /\ ~tui.panic

====
